---- MODULE Spec2Model ----
(***************************************************************************)
(* Model of the governed action-execution control plane of agent_core:     *)
(* the governance gates (budget, permissions, policy), the audit emitter,  *)
(* ActionExecutor, the paths of Runtime / SimpleFlowEngine that build an   *)
(* executor, RetryPolicy with ErrorClassifier, and LifecycleManager.       *)
(*                                                                         *)
(* Strings with dots ("tool.execute", "tool.*") are sequences of their     *)
(* segments (<<"tool","execute">>, <<"tool","*">>).  Python dicts are      *)
(* sequences of entries in insertion order.  Floats (time, cost) are       *)
(* integers.  A handler is one action; what it did, in order, is kept as   *)
(* the sequence of steps of the most recent call.                          *)
(***************************************************************************)
EXTENDS Integers, Sequences, FiniteSets, TLC

\* ------------------------------------------------------------------ bounds
MaxInvocations == 2   \* target invocations made in one behaviour
MaxTime == 1          \* clock ticks in one behaviour
MaxAttemptsBound == 3   \* largest max_attempts given to a RetryPolicy
NumRuns == 2          \* execute_agent calls made on one Runtime
MaxConsumed == 2      \* largest elapsed time, call count, cost and limit a budget check is given
MaxAgents == 3        \* agents registered with a Router
MaxTasks == 4         \* task ids a Scheduler is given
MaxPriority == 1      \* largest priority a task is scheduled with
MaxCost == 2          \* largest "cost" metric a target reports
MaxNodes == 101       \* longest chain of nodes a flow is built with
MaxConcurrency == 1   \* largest runtime.concurrency a Scheduler is built with

\* ------------------------------------------------------------ small helpers
Range(s) == {s[i] : i \in 1..Len(s)}

IsPrefix(p, s) == Len(p) <= Len(s) /\ \A i \in 1..Len(p) : p[i] = s[i]

Min(S) == CHOOSE x \in S : \A y \in S : x <= y

\* ------------------------------------------------------- dict value shapes
\* A value stored in the permissions dict: a bool, a list, a dict (one level,
\* entries <<key, kind, bool>>) or anything else.
BoolV(b) == [kind |-> "bool", b |-> b, l |-> <<>>, d |-> <<>>]
ListV(l) == [kind |-> "list", b |-> FALSE, l |-> l, d |-> <<>>]
DictV(d) == [kind |-> "dict", b |-> FALSE, l |-> <<>>, d |-> d]
OtherV == [kind |-> "other", b |-> FALSE, l |-> <<>>, d |-> <<>>]

Entry(k, v) == [key |-> k, val |-> v]

HasKey(dict, k) == \E i \in 1..Len(dict) : dict[i].key = k

Lookup(dict, k) == dict[CHOOSE i \in 1..Len(dict) : dict[i].key = k].val

\* An optional number (None or a value).
NoLimit == [has |-> FALSE, v |-> 0]
Limit(n) == [has |-> TRUE, v |-> n]

\* ------------------------------------------------------------ permissions
\* PermissionEvaluator._has_permission
NestedHits(permission, available) ==
    {i \in 1..Len(available) :
        /\ available[i].val.kind = "dict"
        /\ \E j \in 1..Len(available[i].val.d) : available[i].val.d[j][1] = permission}

NestedValue(permission, d) ==
    d[CHOOSE j \in 1..Len(d) : d[j][1] = permission]

_has_permission(permission, available) ==
    IF HasKey(available, permission)
    THEN LET value == Lookup(available, permission)
         IN IF value.kind = "bool" THEN value.b ELSE TRUE
    ELSE IF HasKey(available, "permissions")
            /\ Lookup(available, "permissions").kind = "list"
    THEN permission \in Range(Lookup(available, "permissions").l)
    ELSE IF NestedHits(permission, available) # {}
    THEN LET first == available[Min(NestedHits(permission, available))].val.d
             pv == NestedValue(permission, first)
         IN IF pv[2] = "bool" THEN pv[3] ELSE TRUE
    ELSE FALSE

\* The missing_permissions list built by check_permissions, in order.
MissingPermissions(required, available) ==
    SelectSeq(required, LAMBDA p : ~_has_permission(p, available))

\* PermissionEvaluator.check_permissions: TRUE = returns True,
\* FALSE = raises PermissionError.
\* Variant: one granted permission is enough.
check_permissions_any(required, available) ==
    \/ required = <<>>
    \/ \E i \in 1..Len(required) : _has_permission(required[i], available)

check_permissions(required, available) ==
    IF required = <<>> THEN TRUE
    ELSE MissingPermissions(required, available) = <<>>

\* ------------------------------------------------------------------ policy
PolicyOutcomes == {"allow", "deny", "require_approval"}

\* A policy config: with or without an "outcome" field.
Outcome(o) == [has_outcome |-> TRUE, outcome |-> o]
NoOutcome == [has_outcome |-> FALSE, outcome |-> ""]

\* PolicyEngine._evaluate_policy_config ("PolicyError" = raises PolicyError)
_evaluate_policy_config(policy_config) ==
    IF policy_config.has_outcome
    THEN IF policy_config.outcome \in PolicyOutcomes
         THEN policy_config.outcome
         ELSE "PolicyError"
    ELSE "allow"

\* PolicyEngine._matches_pattern
_matches_pattern(action, pattern) ==
    \/ pattern = action
    \/ /\ Len(pattern) >= 2
       /\ pattern[Len(pattern)] = "*"
       /\ Len(action) >= Len(pattern)
       /\ IsPrefix(SubSeq(pattern, 1, Len(pattern) - 1), action)

\* Variant: no exact-key step, the first configured key that matches decides.
evaluate_policy_in_order(action, policies) ==
    LET hits == {i \in 1..Len(policies) : _matches_pattern(action, policies[i].key)}
    IN IF hits # {}
       THEN _evaluate_policy_config(policies[Min(hits)].val)
       ELSE "allow"

\* PolicyEngine.evaluate_policy
evaluate_policy(action, policies) ==
    IF policies = <<>> THEN "allow"
    ELSE IF HasKey(policies, action)
    THEN _evaluate_policy_config(Lookup(policies, action))
    ELSE LET hits == {i \in 1..Len(policies) : _matches_pattern(action, policies[i].key)}
         IN IF hits # {}
            THEN _evaluate_policy_config(policies[Min(hits)].val)
            ELSE "allow"

\* ------------------------------------------------------------------ budget
\* BudgetTracker.__init__
NewTracker(t) == [present |-> TRUE, start_time |-> t, call_count |-> 0,
                  cost_accumulated |-> 0]

NoTracker == [present |-> FALSE, start_time |-> 0, call_count |-> 0,
              cost_accumulated |-> 0]

BudgetOk == [budget_type |-> "ok", limit |-> 0, consumed |-> 0]

BudgetExhausted(type, limit, consumed) ==
    [budget_type |-> type, limit |-> limit, consumed |-> consumed]

\* BudgetEnforcer.check_budget: BudgetOk, or the BudgetExhaustedError raised.
\* Variant: the call limit is examined before the time limit.
check_budget_calls_first(tr, budget, t) ==
    LET elapsed == t - tr.start_time
    IN IF budget.call_limit.has /\ tr.call_count >= budget.call_limit.v
       THEN BudgetExhausted("calls", budget.call_limit.v, tr.call_count)
       ELSE IF budget.time_limit.has /\ elapsed >= budget.time_limit.v
       THEN BudgetExhausted("time", budget.time_limit.v, elapsed)
       ELSE IF budget.cost_limit.has /\ tr.cost_accumulated >= budget.cost_limit.v
       THEN BudgetExhausted("cost", budget.cost_limit.v, tr.cost_accumulated)
       ELSE BudgetOk

\* Variant: the call limit compared with > instead of >=.
check_budget_strict(tr, budget, t) ==
    LET elapsed == t - tr.start_time
    IN IF budget.time_limit.has /\ elapsed >= budget.time_limit.v
       THEN BudgetExhausted("time", budget.time_limit.v, elapsed)
       ELSE IF budget.call_limit.has /\ tr.call_count > budget.call_limit.v
       THEN BudgetExhausted("calls", budget.call_limit.v, tr.call_count)
       ELSE IF budget.cost_limit.has /\ tr.cost_accumulated >= budget.cost_limit.v
       THEN BudgetExhausted("cost", budget.cost_limit.v, tr.cost_accumulated)
       ELSE BudgetOk

\* Variant: the cost limit compared with > instead of >=.
check_budget_cost_strict(tr, budget, t) ==
    LET elapsed == t - tr.start_time
    IN IF budget.time_limit.has /\ elapsed >= budget.time_limit.v
       THEN BudgetExhausted("time", budget.time_limit.v, elapsed)
       ELSE IF budget.call_limit.has /\ tr.call_count >= budget.call_limit.v
       THEN BudgetExhausted("calls", budget.call_limit.v, tr.call_count)
       ELSE IF budget.cost_limit.has /\ tr.cost_accumulated > budget.cost_limit.v
       THEN BudgetExhausted("cost", budget.cost_limit.v, tr.cost_accumulated)
       ELSE BudgetOk

check_budget(tr, budget, t) ==
    LET elapsed == t - tr.start_time
    IN IF budget.time_limit.has /\ elapsed >= budget.time_limit.v
       THEN BudgetExhausted("time", budget.time_limit.v, elapsed)
       ELSE IF budget.call_limit.has /\ tr.call_count >= budget.call_limit.v
       THEN BudgetExhausted("calls", budget.call_limit.v, tr.call_count)
       ELSE IF budget.cost_limit.has /\ tr.cost_accumulated >= budget.cost_limit.v
       THEN BudgetExhausted("cost", budget.cost_limit.v, tr.cost_accumulated)
       ELSE BudgetOk


\* ---------------------------------------------------------------- registry
\* The tools and services registered with the executor, and what each tool
\* declares as permissions_required.
ToolIds == {"tool0", "tool1", "tool2"}

ServiceIds == {"svc"}

permissions_required(tool_id) ==
    CASE tool_id = "tool0" -> <<>>
      [] tool_id = "tool1" -> <<"read">>
      [] OTHER -> <<"read", "write">>

\* ------------------------------------------------------------------- state
VARIABLES
    cfg,          \* ExecutionContext.permissions / .budget and governance policies
    tracker,      \* the BudgetTracker of the caller's own ActionExecutor
    now,          \* the clock read by BudgetTracker.get_elapsed_time
    invoked,      \* target.execute entries made by the caller's own executor
    ctx_invoked,  \* target.execute entries for the context, over all executors
    last,         \* the most recent execute_action call: input, pre-state, steps, result
    retry,        \* RetryPolicy.execute_with_retry in progress
    lc_state,     \* LifecycleManager.state
    lc_events,    \* LifecycleManager.events
    lc_last,      \* the most recent transition_to call
    lc_calls,     \* the transition_to calls that returned, in order: (new_state, metadata)
    runs,         \* the Runtime.execute_agent calls in progress or finished
    last_lifecycle, \* Runtime._last_lifecycle: the run whose LifecycleManager it holds
    completed,    \* the runs that have left execute_agent, in the order they left
    sr_call,      \* a RetryPolicy.should_retry call: its arguments and result
    cb_call,      \* a BudgetEnforcer.check_budget call: its arguments and result
    fn_call,      \* a call of another pure function: its name, arguments and result
    sched,        \* the Scheduler: its tasks, queue and running set
    flow          \* a SimpleFlowEngine: its flow and where its execute call is

aeVars == <<cfg, tracker, now, invoked, ctx_invoked, last>>
lcVars == <<lc_state, lc_events, lc_last, lc_calls>>
rtVars == <<runs, last_lifecycle, completed>>
fnVars == <<sr_call, cb_call, fn_call>>
vars == <<cfg, tracker, now, invoked, ctx_invoked, last, retry,
          lc_state, lc_events, lc_last, lc_calls,
          runs, last_lifecycle, completed, sr_call, cb_call, fn_call, sched, flow>>

\* ------------------------------------------------------- steps of a handler
Step(op, kind, outcome, ok, n, action, resource) ==
    [op |-> op, kind |-> kind, outcome |-> outcome, ok |-> ok, n |-> n,
     action |-> action, resource |-> resource]

Did(op, outcome) == Step(op, "", outcome, TRUE, 0, <<>>, <<>>)

Raise(steps, exc, reason) == [steps |-> steps, raised |-> exc, reason |-> reason]

Return(steps) == [steps |-> steps, raised |-> "none", reason |-> "none"]

\* AuditEmitter.emit_*_decision called inside "try: ... except Exception: pass":
\* the event reaches the sink (ok) or emit_audit raised, AuditEmissionError was
\* raised from the emitter and swallowed by the caller (not ok).
emit_permission_decision(action, resource, decision_outcome, sink_ok) ==
    Step("emit_audit", "governance:permissions", decision_outcome, sink_ok, 0,
         action, resource)

emit_policy_decision(action, resource, decision_outcome, sink_ok) ==
    Step("emit_audit", "governance:policy", decision_outcome, sink_ok, 0,
         action, resource)

emit_budget_exhaustion(e, sink_ok) ==
    Step("emit_audit", "governance:budget", "denied", sink_ok, e.consumed,
         <<"budget", "exhausted", e.budget_type>>, <<"budget", e.budget_type>>)

\* ---------------------------------------------------------- ActionExecutor
\* Record the call, build the target's input from the action (ToolInput or
\* ServiceInput rejects a payload that is not a dict), invoke the target,
\* record its cost, return the envelope.
\* Variant: what the target raises leaves execute_action as it is.
InvokeTarget_reraises(tr, env) ==
    LET pre == IF tr.present THEN <<Did("record_call", "ok")>> ELSE <<>>
    IN IF ~env.input_ok
       THEN Raise(pre \o <<Did("build_input", "ValidationError")>>,
                  "ValidationError", "invalid_input")
       ELSE IF env.target.kind = "raise"
       THEN Raise(pre \o <<Did("execute", "raise")>>, "TargetException", "target_raised")
       ELSE IF tr.present /\ env.target.has_cost
       THEN IF env.target.cost < 0
            THEN Raise(pre \o <<Did("execute", "return"),
                                Step("record_cost", "", "ValueError", FALSE,
                                     env.target.cost, <<>>, <<>>)>>,
                       "ValueError", "negative_cost")
            ELSE Return(pre \o <<Did("execute", "return"),
                                 Step("record_cost", "", "ok", TRUE,
                                      env.target.cost, <<>>, <<>>)>>)
       ELSE Return(pre \o <<Did("execute", "return")>>)

InvokeTarget(tr, env) ==
    LET pre == IF tr.present THEN <<Did("record_call", "ok")>> ELSE <<>>
    IN IF ~env.input_ok
       THEN Raise(pre \o <<Did("build_input", "ValidationError")>>,
                  "ValidationError", "invalid_input")
       ELSE IF env.target.kind = "raise"
       THEN Raise(pre \o <<Did("execute", "raise")>>,
                  "ActionExecutionError", "target_raised")
       ELSE IF tr.present /\ env.target.has_cost
       THEN IF env.target.cost < 0
            THEN Raise(pre \o <<Did("execute", "return"),
                                Step("record_cost", "", "ValueError", FALSE,
                                     env.target.cost, <<>>, <<>>)>>,
                       "ValueError", "negative_cost")
            ELSE Return(pre \o <<Did("execute", "return"),
                                 Step("record_cost", "", "ok", TRUE,
                                      env.target.cost, <<>>, <<>>)>>)
       ELSE Return(pre \o <<Did("execute", "return")>>)

\* "Emit audit event for permission grant", then the invocation.
GrantAndInvoke(steps, action, resource, tr, env) ==
    LET r == InvokeTarget(tr, env)
    IN [r EXCEPT !.steps =
            steps \o <<emit_permission_decision(action, resource, "allowed",
                                                env.sink_ok)>> \o r.steps]

\* "if policy_outcome == PolicyOutcome.DENY"
\* Variant: the denial is raised without its audit event.
PolicyDenyBranch_silent(steps, action, resource, env) ==
    Raise(steps, "ActionExecutionError", "policy_deny")

\* Variant: a failed emission replaces the denial.
PolicyDenyBranch_audit_masks(steps, action, resource, env) ==
    IF env.sink_ok
    THEN Raise(steps \o <<emit_policy_decision(action, resource, "deny", env.sink_ok)>>,
               "ActionExecutionError", "policy_deny")
    ELSE Raise(steps \o <<emit_policy_decision(action, resource, "deny", env.sink_ok)>>,
               "AuditEmissionError", "audit_failed")

PolicyDenyBranch(steps, action, resource, env) ==
    Raise(steps \o <<emit_policy_decision(action, resource, "deny", env.sink_ok)>>,
          "ActionExecutionError", "policy_deny")

\* "if policy_outcome == PolicyOutcome.REQUIRE_APPROVAL"
\* Variant: the approval requirement is audited but does not stop the action.
PolicyApprovalBranch_proceeds(steps, action, resource, tr, env) ==
    GrantAndInvoke(steps \o <<emit_policy_decision(action, resource,
                                                   "require_approval", env.sink_ok)>>,
                   action, resource, tr, env)

PolicyApprovalBranch(steps, action, resource, tr, env) ==
    Raise(steps \o <<emit_policy_decision(action, resource, "require_approval",
                                          env.sink_ok)>>,
          "ActionExecutionError", "policy_require_approval")

\* "Check policy" and everything after it.
PolicyAndInvoke(steps, action, resource, tr, env) ==
    LET policy_outcome == evaluate_policy(action, cfg.policies)
        s == steps \o <<Did("evaluate_policy", policy_outcome)>>
    IN IF policy_outcome = "PolicyError"
       THEN Raise(s, "PolicyError", "policy_error")
       ELSE IF policy_outcome = "deny"
       THEN PolicyDenyBranch(s, action, resource, env)
       ELSE IF policy_outcome = "require_approval"
       THEN PolicyApprovalBranch(s, action, resource, tr, env)
       ELSE GrantAndInvoke(s, action, resource, tr, env)

\* "Check budget before execution": <<>> when no enforcer is attached.
BudgetGate(tr, t) ==
    IF tr.present
    THEN <<Step("check_budget", "", check_budget(tr, cfg.budget, t).budget_type,
                TRUE, 0, <<>>, <<>>)>>
    ELSE <<>>

BudgetDenied(tr, t, env) ==
    Raise(BudgetGate(tr, t) \o
              <<emit_budget_exhaustion(check_budget(tr, cfg.budget, t), env.sink_ok)>>,
          "ActionExecutionError", "budget")

\* ActionExecutor._execute_tool_action
\* Variant: the budget is checked before the tool is looked up.
_execute_tool_action_budget_first(action, tr, t, env) ==
    IF action.tool_id = "None"
    THEN Raise(<<>>, "ActionExecutionError", "missing_id")
    ELSE IF tr.present /\ check_budget(tr, cfg.budget, t) # BudgetOk
    THEN BudgetDenied(tr, t, env)
    ELSE IF action.tool_id \notin ToolIds
    THEN Raise(BudgetGate(tr, t), "ActionExecutionError", "not_registered")
    ELSE LET required == permissions_required(action.tool_id)
             act == <<"tool", "execute">>
             res == <<"tool", action.tool_id>>
         IN IF ~check_permissions(required, cfg.permissions)
            THEN Raise(BudgetGate(tr, t) \o
                           <<Did("check_permissions", "denied"),
                             emit_permission_decision(act, res, "denied", env.sink_ok)>>,
                       "ActionExecutionError", "permission")
            ELSE PolicyAndInvoke(BudgetGate(tr, t) \o <<Did("check_permissions", "ok")>>,
                                 act, res, tr, env)

_execute_tool_action(action, tr, t, env) ==
    IF action.tool_id = "None"
    THEN Raise(<<>>, "ActionExecutionError", "missing_id")
    ELSE IF action.tool_id \notin ToolIds
    THEN Raise(<<>>, "ActionExecutionError", "not_registered")
    ELSE IF tr.present /\ check_budget(tr, cfg.budget, t) # BudgetOk
    THEN BudgetDenied(tr, t, env)
    ELSE LET required == permissions_required(action.tool_id)
             act == <<"tool", "execute">>
             res == <<"tool", action.tool_id>>
         IN IF ~check_permissions(required, cfg.permissions)
            THEN Raise(BudgetGate(tr, t) \o
                           <<Did("check_permissions", "denied"),
                             emit_permission_decision(act, res, "denied", env.sink_ok)>>,
                       "ActionExecutionError", "permission")
            ELSE PolicyAndInvoke(BudgetGate(tr, t) \o <<Did("check_permissions", "ok")>>,
                                 act, res, tr, env)

\* ActionExecutor._execute_service_action
_execute_service_action(action, tr, t, env) ==
    IF action.service_id = "None"
    THEN Raise(<<>>, "ActionExecutionError", "missing_id")
    ELSE IF action.action = "None"
    THEN Raise(<<>>, "ActionExecutionError", "missing_action")
    ELSE IF action.service_id \notin ServiceIds
    THEN Raise(<<>>, "ActionExecutionError", "not_registered")
    ELSE IF tr.present /\ check_budget(tr, cfg.budget, t) # BudgetOk
    THEN BudgetDenied(tr, t, env)
    ELSE LET act == <<"service", action.action>>
             res == <<"service", action.service_id>>
         IN IF env.svc_perm = "raise"
            THEN Raise(BudgetGate(tr, t) \o <<Did("check_permissions", "raise")>>,
                       "ServiceException", "check_permission_raised")
            ELSE IF env.svc_perm = "false"
            THEN Raise(BudgetGate(tr, t) \o
                           <<Did("check_permissions", "denied"),
                             emit_permission_decision(act, res, "denied", env.sink_ok)>>,
                       "ActionExecutionError", "permission")
            ELSE PolicyAndInvoke(BudgetGate(tr, t) \o <<Did("check_permissions", "ok")>>,
                                 act, res, tr, env)

\* ActionExecutor.execute_action
execute_action(action, tr, t, env) ==
    IF action.type = "None"
    THEN Raise(<<>>, "ActionExecutionError", "missing_type")
    ELSE IF action.type = "tool"
    THEN _execute_tool_action(action, tr, t, env)
    ELSE IF action.type = "service"
    THEN _execute_service_action(action, tr, t, env)
    ELSE Raise(<<>>, "ActionExecutionError", "unknown_type")


\* --------------------------------------------------------- ErrorClassifier
ErrorOf(error_type, retryable) == [error_type |-> error_type, retryable |-> retryable]

\* ErrorClassifier.classify, by the exception's class
classify(exception) ==
    CASE exception = "PermissionError" -> ErrorOf("permission_error", FALSE)
      [] exception = "BudgetExhaustedError" -> ErrorOf("budget_exceeded", FALSE)
      [] exception = "ConfigurationError" -> ErrorOf("validation_error", FALSE)
      [] exception = "RoutingError" -> ErrorOf("validation_error", FALSE)
      [] exception = "FlowLoadError" -> ErrorOf("validation_error", FALSE)
      [] exception = "FlowExecutionError" -> ErrorOf("execution_failure", TRUE)
      [] exception = "ActionExecutionError" -> ErrorOf("execution_failure", TRUE)
      [] exception = "PolicyError" -> ErrorOf("permission_error", FALSE)
      [] exception = "AuditEmissionError" -> ErrorOf("execution_failure", TRUE)
      [] exception = "TimeoutError" -> ErrorOf("timeout", TRUE)
      [] OTHER -> ErrorOf("execution_failure", TRUE)

\* -------------------------------------------------------------- RetryPolicy
\* Variant: the error category is not looked at.
should_retry_any_category(error, attempt, is_idempotent, max_attempts, has_enforcer, tr, t) ==
    IF attempt >= max_attempts THEN FALSE
    ELSE IF ~error.retryable THEN FALSE
    ELSE IF ~is_idempotent THEN FALSE
    ELSE IF has_enforcer /\ check_budget(tr, cfg.budget, t) # BudgetOk THEN FALSE
    ELSE TRUE

\* Variant: timeouts are treated like the categories that are never retried.
should_retry_no_timeout(error, attempt, is_idempotent, max_attempts, has_enforcer, tr, t) ==
    IF attempt >= max_attempts THEN FALSE
    ELSE IF ~error.retryable THEN FALSE
    ELSE IF ~is_idempotent THEN FALSE
    ELSE IF error.error_type \in {"validation_error", "permission_error", "budget_exceeded",
                                  "timeout"}
    THEN FALSE
    ELSE IF has_enforcer /\ check_budget(tr, cfg.budget, t) # BudgetOk THEN FALSE
    ELSE TRUE

\* Variant: the idempotency flag is not looked at.
should_retry_any_operation(error, attempt, is_idempotent, max_attempts, has_enforcer, tr, t) ==
    IF attempt >= max_attempts THEN FALSE
    ELSE IF ~error.retryable THEN FALSE
    ELSE IF error.error_type \in {"validation_error", "permission_error", "budget_exceeded"}
    THEN FALSE
    ELSE IF has_enforcer /\ check_budget(tr, cfg.budget, t) # BudgetOk THEN FALSE
    ELSE TRUE

\* Variant: the budget is not checked again.
should_retry_any_budget(error, attempt, is_idempotent, max_attempts, has_enforcer, tr, t) ==
    IF attempt >= max_attempts THEN FALSE
    ELSE IF ~error.retryable THEN FALSE
    ELSE IF ~is_idempotent THEN FALSE
    ELSE IF error.error_type \in {"validation_error", "permission_error", "budget_exceeded"}
    THEN FALSE
    ELSE TRUE

\* RetryPolicy.should_retry; has_enforcer: a BudgetEnforcer on tr is attached
should_retry(error, attempt, is_idempotent, max_attempts, has_enforcer, tr, t) ==
    IF attempt >= max_attempts THEN FALSE
    ELSE IF ~error.retryable THEN FALSE
    ELSE IF ~is_idempotent THEN FALSE
    ELSE IF error.error_type \in {"validation_error", "permission_error", "budget_exceeded"}
    THEN FALSE
    ELSE IF has_enforcer /\ check_budget(tr, cfg.budget, t) # BudgetOk THEN FALSE
    ELSE TRUE

\* ---------------------------------------------------------- LifecycleManager
LifecycleStates ==
    {"INITIALIZING", "READY", "EXECUTING", "COMPLETED", "FAILED", "TERMINATED"}

\* valid_transitions in LifecycleManager.transition_to
\* Variant: COMPLETED may still be terminated.
valid_transitions_reopen(state) ==
    CASE state = "INITIALIZING" -> {"READY", "FAILED"}
      [] state = "READY" -> {"EXECUTING", "TERMINATED"}
      [] state = "EXECUTING" -> {"COMPLETED", "FAILED", "TERMINATED"}
      [] state = "COMPLETED" -> {"TERMINATED"}
      [] state = "FAILED" -> {"TERMINATED"}
      [] OTHER -> {}

valid_transitions(state) ==
    CASE state = "INITIALIZING" -> {"READY", "FAILED"}
      [] state = "READY" -> {"EXECUTING", "TERMINATED"}
      [] state = "EXECUTING" -> {"COMPLETED", "FAILED", "TERMINATED"}
      [] state = "COMPLETED" -> {}
      [] state = "FAILED" -> {"TERMINATED"}
      [] OTHER -> {}

\* Variant: a failure is logged as a completion.
event_map_failed_as_completed(new_state) ==
    CASE new_state = "READY" -> "INITIALIZATION_COMPLETED"
      [] new_state = "EXECUTING" -> "EXECUTION_STARTED"
      [] new_state = "COMPLETED" -> "EXECUTION_COMPLETED"
      [] new_state = "FAILED" -> "EXECUTION_COMPLETED"
      [] new_state = "TERMINATED" -> "TERMINATION_STARTED"
      [] OTHER -> ""

\* event_map in LifecycleManager.transition_to ("" = the state has no event)
event_map(new_state) ==
    CASE new_state = "READY" -> "INITIALIZATION_COMPLETED"
      [] new_state = "EXECUTING" -> "EXECUTION_STARTED"
      [] new_state = "COMPLETED" -> "EXECUTION_COMPLETED"
      [] new_state = "FAILED" -> "EXECUTION_FAILED"
      [] new_state = "TERMINATED" -> "TERMINATION_STARTED"
      [] OTHER -> ""

\* Variant: FAILED is not counted as terminal.
is_terminal_unfailed(state) == state \in {"COMPLETED", "TERMINATED"}

\* LifecycleManager.is_terminal
is_terminal(state) == state \in {"COMPLETED", "FAILED", "TERMINATED"}

\* ------------------------------------------------------------------ inputs
\* metadata dicts given to transition_to
Metadatas == {"None", "{}", "{error}", "{status}"}

\* ExecutionContext.permissions values the runs are made with.
GrantConfigs == <<
    <<Entry("read", BoolV(TRUE))>>,
    <<Entry("read", BoolV(FALSE)), Entry("permissions", ListV(<<"read", "write">>))>>,
    <<Entry("tools", DictV(<< <<"read", "bool", TRUE>> >>)), Entry("write", OtherV)>> >>

\* GovernanceConfig.policies values.
PolicyConfigs == <<
    <<>>,
    <<Entry(<<"tool", "execute">>, Outcome("deny"))>>,
    <<Entry(<<"tool", "*">>, Outcome("require_approval")),
      Entry(<<"service", "read">>, Outcome("deny"))>>,
    <<Entry(<<"tool", "*">>, Outcome("deny")),
      Entry(<<"tool", "execute">>, NoOutcome),
      Entry(<<"service", "*">>, Outcome("require_approval"))>>,
    <<Entry(<<"tool", "execute">>, Outcome("maybe"))>> >>

\* ExecutionContext.budget values.
Budget(time_limit, call_limit, cost_limit) ==
    [time_limit |-> time_limit, call_limit |-> call_limit, cost_limit |-> cost_limit]

BudgetConfigs == <<
    Budget(NoLimit, NoLimit, NoLimit),
    Budget(NoLimit, Limit(1), NoLimit),
    Budget(Limit(1), Limit(0), NoLimit),
    Budget(NoLimit, Limit(2), Limit(1)) >>

\* Action dicts an agent or caller may hand to execute_action ("None" = key absent).
Action(type, tool_id, service_id, action) ==
    [type |-> type, tool_id |-> tool_id, service_id |-> service_id, action |-> action]

ToolAction(tool_id) == Action("tool", tool_id, "None", "None")

ServiceAction(service_id, action) == Action("service", "None", service_id, action)

Actions ==
    {ToolAction(id) : id \in ToolIds \cup {"ghost", "None"}}
    \cup {ServiceAction("svc", "read"), ServiceAction("svc", "write"),
          ServiceAction("ghost", "read"), ServiceAction("svc", "None"),
          ServiceAction("None", "read")}
    \cup {Action("None", "tool1", "None", "None"), Action("unknown", "tool1", "None", "None")}

\* What the user code does when called: the target's execute (returns, with or
\* without a "cost" metric, or raises), the service's check_permission, and
\* the sink's emit_audit.
TargetOutcomes ==
    {[kind |-> "return", has_cost |-> FALSE, cost |-> 0],
     [kind |-> "return", has_cost |-> TRUE, cost |-> 1],
     [kind |-> "return", has_cost |-> TRUE, cost |-> -1],
     [kind |-> "raise", has_cost |-> FALSE, cost |-> 0]}

NoTarget == [kind |-> "return", has_cost |-> FALSE, cost |-> 0]

Registered(action) ==
    \/ action.type = "tool" /\ action.tool_id \in ToolIds
    \/ action.type = "service" /\ action.service_id \in ServiceIds /\ action.action # "None"

\* Only the user code a call can reach is varied; input_ok tells whether the
\* action's payload is one ToolInput or ServiceInput accepts.
Envs(action) ==
    IF ~Registered(action)
    THEN {[sink_ok |-> TRUE, svc_perm |-> "true", target |-> NoTarget, input_ok |-> TRUE]}
    ELSE [sink_ok : BOOLEAN, svc_perm : {"true"}, target : TargetOutcomes, input_ok : {TRUE}]
         \cup [sink_ok : BOOLEAN, svc_perm : {"true"}, target : {NoTarget},
               input_ok : {FALSE}]
         \cup (IF action.type = "service"
                THEN [sink_ok : BOOLEAN, svc_perm : {"false", "raise"}, target : {NoTarget},
                      input_ok : {TRUE}]
                ELSE {})

\* ----------------------------------------------------------- applying steps
RECURSIVE CountSteps(_, _)
CountSteps(steps, op) ==
    IF steps = <<>> THEN 0
    ELSE (IF Head(steps).op = op THEN 1 ELSE 0) + CountSteps(Tail(steps), op)

RECURSIVE CostRecorded(_)
CostRecorded(steps) ==
    IF steps = <<>> THEN 0
    ELSE (IF Head(steps).op = "record_cost" /\ Head(steps).ok THEN Head(steps).n ELSE 0)
         + CostRecorded(Tail(steps))

\* BudgetTracker.record_call / record_cost as the handler called them.
Recorded(tr, steps) ==
    [tr EXCEPT !.call_count = @ + CountSteps(steps, "record_call"),
               !.cost_accumulated = @ + CostRecorded(steps)]

\* One execute_action call: who made it, the action, the tracker and clock it
\* started with, what the service's check_permission answered, the sink it
\* emitted to, and what it did.
Call(path, action, pre, t, svc_perm, sinkName, result) ==
    [path |-> path, action |-> action, pre |-> pre, t |-> t, svc_perm |-> svc_perm,
     sink |-> sinkName, result |-> result]

NoCall == Call("none", Action("None", "None", "None", "None"), NoTracker, 0, "true",
               "none", Return(<<>>))

\* One execute_with_retry call: where it is, the operation (an execute_action
\* call or any other callable), its arguments and the policy's, the attempt
\* number, the operation's invocations, the time.sleep calls, the exception
\* classes the operation raised, the last exception and its reason, the
\* clock at the last attempt, and how the call ended (returned / raised).
IdleRetry == [phase |-> "idle", op |-> "none",
              action |-> Action("None", "None", "None", "None"),
              is_idempotent |-> TRUE, max_attempts |-> 0, has_enforcer |-> FALSE,
              attempt |-> 0, invocations |-> 0, sleeps |-> 0, kinds |-> {},
              raised |-> "none", reason |-> "none", t |-> 0, result |-> "pending"]

\* the execute_agent calls made on one Runtime
Runs == 1..NumRuns

\* agents registered with the Runtime, and the agent_id arguments of
\* execute_agent (required_capabilities is not given)
AgentIds == {"agent0"}

AgentRequests == {"agent0", "ghost"}

\* Router.select_agent with an explicit agent_id or with nothing to select by
select_agent(agent_id) ==
    IF agent_id # "None"
    THEN IF agent_id \in AgentIds THEN agent_id ELSE "RoutingError"
    ELSE "RoutingError"

\* Action lists an agent may return in result.actions.
ActionLists == {<<>>, <<ServiceAction("svc", "read"), ToolAction("tool0")>>}

\* The user code an action of the loop meets: a working sink, a payload the
\* input model accepts, and targets that report no cost or a negative one.
AgentEnvs(action) ==
    {e \in Envs(action) :
        e.sink_ok /\ e.input_ok /\ ~(e.target.has_cost /\ e.target.cost > 0)}

\* What agent.run does: returns a result, or raises.
AgentResults ==
    {[kind |-> "return", status |-> st, actions |-> l] :
        st \in {"success", "error"}, l \in ActionLists}
    \cup {[kind |-> k, status |-> "none", actions |-> <<>>] : k \in {"raise", "raise_routing"}}

\* LifecycleManager(context) of one run; rejected = a transition_to call of
\* the run raised ValueError
NewLifecycle == [state |-> "INITIALIZING", events |-> <<>>, rejected |-> FALSE]

\* LifecycleManager.transition_to on the run's own manager
lifecycle_transition_to(lc, new_state, metadata) ==
    IF new_state \notin valid_transitions(lc.state)
    THEN [lc EXCEPT !.rejected = TRUE]
    ELSE [lc EXCEPT !.events = IF event_map(new_state) # ""
                               THEN Append(@, <<event_map(new_state), metadata>>)
                               ELSE @,
                    !.state = new_state]

\* the finally clause of execute_agent
Finally(lc) ==
    IF ~is_terminal(lc.state) THEN lifecycle_transition_to(lc, "TERMINATED", "None") ELSE lc

\* the except Exception clause of execute_agent, then the finally clause
ExceptException(lc) ==
    Finally(IF lc.state = "EXECUTING"
            THEN lifecycle_transition_to(lc, "FAILED", "{error}")
            ELSE lc)

\* One execute_agent call: where it is, its agent_id argument, its
\* LifecycleManager, the agent's result, the next action of the loop, the actions appended to
\* result.errors and to action_results (by position), its BudgetTracker, how
\* it left (returned / RoutingError / RuntimeError) and the exception that
\* made it leave.
IdleRun == [pc |-> "idle", agent_id |-> "None", lc |-> NewLifecycle,
            status |-> "none", actions |-> <<>>, i |-> 1, errors |-> <<>>,
            results |-> <<>>, tracker |-> NoTracker, outcome |-> "none",
            cause |-> "none"]

\* ErrorCategory, and the Error objects should_retry may be given
ErrorCategories ==
    {"validation_error", "permission_error", "budget_exceeded", "timeout",
     "execution_failure", "dependency_failure"}

Errors == {ErrorOf(c, rt) : c \in ErrorCategories, rt \in BOOLEAN}

\* BudgetTracker states a check may meet
Trackers ==
    {[NewTracker(0) EXCEPT !.call_count = n, !.cost_accumulated = c] :
        n \in 0..MaxConsumed, c \in 0..MaxConsumed}

\* One should_retry call: its arguments, whether it was made, what it returned.
ShouldRetryCall(error, attempt, is_idempotent, max_attempts, has_enforcer, tr, t) ==
    [error |-> error, attempt |-> attempt, is_idempotent |-> is_idempotent,
     max_attempts |-> max_attempts, has_enforcer |-> has_enforcer, tr |-> tr, t |-> t,
     done |-> FALSE, result |-> FALSE]

NoShouldRetry ==
    ShouldRetryCall(ErrorOf("execution_failure", TRUE), 0, TRUE, 0, FALSE, NoTracker, 0)
\* context.budget dicts with every combination of limits
Limits == {NoLimit} \cup {Limit(n) : n \in 0..MaxConsumed}

Budgets == {Budget(tl, cl, col) : tl \in Limits, cl \in Limits, col \in Limits}

\* One check_budget call: the tracker, the budget and the clock it reads,
\* whether it was made, and what it returned or raised.
CheckBudgetCall(tr, budget, t) ==
    [tr |-> tr, budget |-> budget, t |-> t, done |-> FALSE, result |-> BudgetOk]

NoCheckBudget == CheckBudgetCall(NoTracker, Budget(NoLimit, NoLimit, NoLimit), 0)

\* One call of a pure function: which one, its arguments, whether it was
\* made, and what it returned or raised.
FnCall(fn, args) == [fn |-> fn, args |-> args, done |-> FALSE, result |-> <<>>]

NoFnCall == FnCall("none", <<>>)

\* --------------------------------------------------------------- Scheduler
TaskIds == 1..MaxTasks
Priorities == 0..MaxPriority

ScheduledTask(priority, task_id, enqueue_time, fairness_counter) ==
    [priority |-> priority, task_id |-> task_id, enqueue_time |-> enqueue_time,
     fairness_counter |-> fairness_counter]

\* ScheduledTask.__lt__
\* Variant: the newest task of a priority level comes first.
__lt__newest_first(self, other) ==
    IF self.priority # other.priority
    THEN self.priority > other.priority
    ELSE self.fairness_counter > other.fairness_counter

__lt__(self, other) ==
    IF self.priority # other.priority
    THEN self.priority > other.priority
    ELSE self.fairness_counter < other.fairness_counter

\* heapq on a list whose position 1 is Python's heap[0]: the parent of
\* position pos is pos \div 2, its children are 2 * pos and 2 * pos + 1.
RECURSIVE SiftDownLoop(_, _, _, _)
SiftDownLoop(heap, startpos, pos, newitem) ==
    IF pos > startpos /\ __lt__(newitem, heap[pos \div 2])
    THEN SiftDownLoop([heap EXCEPT ![pos] = heap[pos \div 2]], startpos, pos \div 2,
                      newitem)
    ELSE [heap EXCEPT ![pos] = newitem]

_siftdown(heap, startpos, pos) == SiftDownLoop(heap, startpos, pos, heap[pos])

RECURSIVE SiftUpLoop(_, _, _)
SiftUpLoop(heap, pos, newitem) ==
    IF 2 * pos <= Len(heap)
    THEN LET childpos == 2 * pos
             rightpos == childpos + 1
             smaller == IF rightpos <= Len(heap) /\ ~__lt__(heap[childpos], heap[rightpos])
                        THEN rightpos ELSE childpos
         IN SiftUpLoop([heap EXCEPT ![pos] = heap[smaller]], smaller, newitem)
    ELSE _siftdown([heap EXCEPT ![pos] = newitem], 1, pos)

_siftup(heap, pos) == SiftUpLoop(heap, pos, heap[pos])

heappush(heap, item) == _siftdown(Append(heap, item), 1, Len(heap) + 1)

\* The item popped and the heap left.
heappop(heap) ==
    LET lastelt == heap[Len(heap)]
        rest == SubSeq(heap, 1, Len(heap) - 1)
    IN IF rest # <<>>
       THEN [item |-> rest[1], heap |-> _siftup([rest EXCEPT ![1] = lastelt], 1)]
       ELSE [item |-> lastelt, heap |-> <<>>]

NoTask == ScheduledTask(0, 0, 0, 0)

\* Scheduler.__init__; task[id] is the ScheduledTask made for id, thread[id]
\* is where its thread stands in task_wrapper, started_from[id] tells whether
\* schedule or _try_start_next_task started it, clock is what time.time()
\* returns next.
NewScheduler(max_concurrency) ==
    [max_concurrency |-> max_concurrency,
     pending_queue |-> <<>>,
     running_tasks |-> {},
     task_results |-> {},
     task_errors |-> {},
     task_completion_events |-> [id \in TaskIds |-> "none"],
     fairness_counters |-> [p \in Priorities |-> 0],
     task |-> [id \in TaskIds |-> NoTask],
     thread |-> [id \in TaskIds |-> "none"],
     started_from |-> [id \in TaskIds |-> "none"],
     clock |-> 0]

\* No Scheduler has been given a task.
NoScheduler == NewScheduler(0)

\* ------------------------------------------------------------- flow engine
\* SimpleFlowEngine: a flow is its nodes, its entrypoint and its transitions
\* in the order they are listed; a transition's condition, when it has one, is
\* a {"status": value} dict compared with the node's result.
Transition(from, to, condition) == [from |-> from, to |-> to, condition |-> condition]

FlowDef(nodes, entrypoint, transitions) ==
    [nodes |-> nodes, entrypoint |-> entrypoint, transitions |-> transitions]

\* n nodes in a row, the last one without an outgoing transition.
ChainFlow(n) ==
    FlowDef(1..n, 1, [i \in 1..(n - 1) |-> Transition(i, i + 1, "none")])

CyclicFlow ==
    FlowDef({1, 2}, 1, <<Transition(1, 2, "none"), Transition(2, 1, "none")>>)

BranchingFlow ==
    FlowDef({1, 2, 3}, 1, <<Transition(1, 2, "success"), Transition(1, 3, "none"),
                            Transition(2, 1, "failed")>>)

DanglingFlow == FlowDef({1}, 1, <<Transition(1, 2, "none")>>)

Flows == {ChainFlow(n) : n \in 1..MaxNodes} \cup {CyclicFlow, BranchingFlow, DanglingFlow}

\* "max_iterations = 100  # Prevent infinite loops"
max_iterations == 100

NoNode == 0

\* SimpleFlowEngine._evaluate_transition_condition
_evaluate_transition_condition(condition, node_result) == node_result = condition

\* SimpleFlowEngine._find_next_node: the target of the first listed transition
\* that leaves the node and whose condition, if any, holds; NoNode when none.
_find_next_node(transitions, current_node_id, node_result) ==
    LET matching == {i \in 1..Len(transitions) :
                        /\ transitions[i].from = current_node_id
                        /\ \/ transitions[i].condition = "none"
                           \/ _evaluate_transition_condition(transitions[i].condition,
                                                             node_result)}
    IN IF matching = {} THEN NoNode
       ELSE transitions[CHOOSE i \in matching : \A j \in matching : i <= j].to

\* One SimpleFlowEngine: its flow, where execute is, the node it is at, the
\* loop counter, the nodes executed, whether a node without a matching
\* outgoing transition was reached, and how execute ended.
NewFlowEngine(def) ==
    [def |-> def, pc |-> "idle", current_node |-> NoNode, iteration |-> 0,
     executed |-> 0, reached_end |-> FALSE, node_error |-> FALSE, result |-> "none"]

NoFlow == NewFlowEngine(FlowDef({}, NoNode, <<>>))

\* execute after its loop: "if iteration >= max_iterations: raise
\* FlowExecutionError(... exceeded maximum iterations ...)", else the
\* "completed" result.
\* Variant: only a loop that ran out without finishing the flow is an error.
execute_after_loop_unless_finished(f) ==
    [f EXCEPT !.pc = "done",
              !.result = IF f.iteration >= max_iterations /\ ~f.reached_end
                         THEN "max_iterations" ELSE "completed"]

execute_after_loop(f) ==
    [f EXCEPT !.pc = "done",
              !.result = IF f.iteration >= max_iterations
                         THEN "max_iterations" ELSE "completed"]

\* One pass of execute's while loop, with what follows the loop when this
\* pass was the last: node_result is the executed node's "status", or
\* "raise" when executing it failed.
execute_iteration(f, node_result) ==
    LET it == f.iteration + 1
    IN IF f.current_node \notin f.def.nodes
       THEN [f EXCEPT !.iteration = it, !.pc = "done", !.node_error = TRUE,
                      !.result = "node_not_found"]
       ELSE IF node_result = "raise"
       THEN [f EXCEPT !.iteration = it, !.executed = @ + 1, !.pc = "done",
                      !.node_error = TRUE, !.result = "node_failed"]
       ELSE LET next_node_id == _find_next_node(f.def.transitions, f.current_node,
                                               node_result)
                g == [f EXCEPT !.iteration = it, !.executed = @ + 1]
            IN IF next_node_id = NoNode
               THEN execute_after_loop([g EXCEPT !.reached_end = TRUE])
               ELSE IF it < max_iterations
               THEN [g EXCEPT !.current_node = next_node_id]
               ELSE execute_after_loop([g EXCEPT !.current_node = next_node_id])

\* ----------------------------------------------------------------- actions
InitExecutor ==
    /\ \E g \in 1..Len(GrantConfigs), p \in 1..Len(PolicyConfigs),
          b \in 1..Len(BudgetConfigs), present \in BOOLEAN :
          /\ present \/ b = 1
          /\ cfg = [permissions |-> GrantConfigs[g], policies |-> PolicyConfigs[p],
                    budget |-> BudgetConfigs[b]]
          /\ tracker = IF present THEN NewTracker(0) ELSE NoTracker
    /\ now = 0
    /\ invoked = 0
    /\ ctx_invoked = 0
    /\ last = NoCall
    /\ retry = IdleRetry

InitLifecycle ==
    /\ lc_state = "INITIALIZING"
    /\ lc_events = <<>>
    /\ lc_last = [from |-> "INITIALIZING", to |-> "INITIALIZING", result |-> "none"]
    /\ lc_calls = <<>>

\* Runtime.__init__: no execute_agent call yet, _last_lifecycle is None (0)
InitRuntime ==
    /\ runs = [r \in Runs |-> IdleRun]
    /\ last_lifecycle = 0
    /\ completed = <<>>

\* no should_retry or check_budget call under observation
InitCalls ==
    /\ sr_call = NoShouldRetry
    /\ cb_call = NoCheckBudget
    /\ fn_call = NoFnCall

\* no Scheduler in use
InitNoScheduler == sched = NoScheduler

InitNoFlow == flow = NoFlow

Init ==
    InitExecutor /\ InitLifecycle /\ InitRuntime /\ InitCalls /\ InitNoScheduler /\ InitNoFlow

\* time passes
Tick ==
    /\ now < MaxTime
    /\ now' = now + 1
    /\ UNCHANGED <<cfg, tracker, invoked, ctx_invoked, last, retry>>
    /\ UNCHANGED <<lcVars, rtVars, fnVars, sched, flow>>

\* ActionExecutor.execute_action on the caller's own executor
ExecutorExecuteAction ==
    /\ ctx_invoked < MaxInvocations
    /\ tracker.call_count < MaxInvocations
    /\ \E action \in Actions :
          \E c \in {Call("executor", action, tracker, now, env.svc_perm, "runtime",
                         execute_action(action, tracker, now, env)) : env \in Envs(action)} :
             /\ tracker' = Recorded(tracker, c.result.steps)
             /\ invoked' = invoked + CountSteps(c.result.steps, "execute")
             /\ ctx_invoked' = ctx_invoked + CountSteps(c.result.steps, "execute")
             /\ last' = c
    /\ UNCHANGED <<cfg, now, retry>>
    /\ UNCHANGED <<lcVars, rtVars, fnVars, sched, flow>>

\* Runtime.execute_action: a new BudgetTracker and ActionExecutor for the call
RuntimeExecuteAction ==
    /\ ctx_invoked < MaxInvocations
    /\ \E action \in Actions : \E env \in Envs(action) :
          \E r \in {execute_action(action, NewTracker(now), now, env)} :
             /\ ctx_invoked' = ctx_invoked + CountSteps(r.steps, "execute")
             /\ last' = Call("runtime", action, NewTracker(now), now, env.svc_perm,
                          "runtime", r)
    /\ UNCHANGED <<cfg, tracker, now, invoked, retry>>
    /\ UNCHANGED <<lcVars, rtVars, fnVars, sched, flow>>

\* SimpleFlowEngine._execute_tool_node: a new BudgetTracker and an
\* ActionExecutor on a NoOpObservabilitySink for the node
FlowToolNode ==
    /\ ctx_invoked < MaxInvocations
    /\ \E tool_id \in ToolIds \cup {"ghost", "None"} :
       \E env \in Envs(ToolAction(tool_id)) :
          /\ env.sink_ok
          /\ \E r \in {IF tool_id = "None"
                        THEN Raise(<<>>, "FlowExecutionError", "missing_id")
                        ELSE execute_action(ToolAction(tool_id), NewTracker(now), now, env)} :
                /\ ctx_invoked' = ctx_invoked + CountSteps(r.steps, "execute")
                /\ last' = Call("flow", ToolAction(tool_id), NewTracker(now), now, "true",
                             "noop", r)
    /\ UNCHANGED <<cfg, tracker, now, invoked, retry>>
    /\ UNCHANGED <<lcVars, rtVars, fnVars, sched, flow>>

Next ==
    \/ Tick
    \/ ExecutorExecuteAction

Spec == Init /\ [][Next]_vars

\* The paths that build an executor of their own.
NextRuntime ==
    \/ Tick
    \/ RuntimeExecuteAction
    \/ FlowToolNode

SpecRuntime == Init /\ [][NextRuntime]_vars


\* ------------------------------------------------- executor under a cost limit
\* What a registered target does when its result carries a "cost" metric of
\* any size, next to the outcomes without one.
CostEnvs(action) ==
    IF ~Registered(action) THEN Envs(action)
    ELSE [sink_ok : {TRUE}, svc_perm : {"true"}, input_ok : {TRUE},
          target : {[kind |-> "return", has_cost |-> TRUE, cost |-> c] : c \in -1..MaxCost}
                   \cup {[kind |-> "raise", has_cost |-> FALSE, cost |-> 0], NoTarget}]

\* An executor whose context has a cost limit only, with its tracker.
InitCost ==
    /\ \E g \in 1..Len(GrantConfigs), p \in 1..Len(PolicyConfigs), limit \in 0..MaxConsumed :
          cfg = [permissions |-> GrantConfigs[g], policies |-> PolicyConfigs[p],
                 budget |-> Budget(NoLimit, NoLimit, Limit(limit))]
    /\ tracker = NewTracker(0)
    /\ now = 0
    /\ invoked = 0
    /\ ctx_invoked = 0
    /\ last = NoCall
    /\ retry = IdleRetry
    /\ InitLifecycle
    /\ InitRuntime
    /\ InitCalls
    /\ InitNoScheduler
    /\ InitNoFlow

\* ActionExecutor.execute_action with targets that report costs.
ExecutorExecuteCostly ==
    /\ ctx_invoked < MaxInvocations
    /\ tracker.call_count < MaxInvocations
    /\ \E action \in Actions :
          \E c \in {Call("executor", action, tracker, now, env.svc_perm, "runtime",
                         execute_action(action, tracker, now, env)) :
                        env \in CostEnvs(action)} :
             /\ tracker' = Recorded(tracker, c.result.steps)
             /\ invoked' = invoked + CountSteps(c.result.steps, "execute")
             /\ ctx_invoked' = ctx_invoked + CountSteps(c.result.steps, "execute")
             /\ last' = c
    /\ UNCHANGED <<cfg, now, retry>>
    /\ UNCHANGED <<lcVars, rtVars, fnVars, sched, flow>>

NextCost == ExecutorExecuteCostly

SpecCost == InitCost /\ [][NextCost]_vars

\* ------------------------------------------------------- execute_with_retry
RetryActions ==
    {ToolAction("tool0"), ToolAction("tool1"), ToolAction("tool2"), ToolAction("ghost"),
     ServiceAction("svc", "read")}

\* RetryPolicy.execute_with_retry(lambda: executor.execute_action(action), ...)
\* with the default classifier: entry, up to the first attempt
RetryStart ==
    /\ retry.phase = "idle"
    /\ \E action \in RetryActions, is_idempotent \in BOOLEAN,
          max_attempts \in 0..MaxAttemptsBound, has_enforcer \in BOOLEAN :
          /\ has_enforcer => tracker.present
          /\ retry' = IF max_attempts < 1
                      THEN [IdleRetry EXCEPT !.phase = "done", !.action = action,
                                             !.op = "execute_action",
                                             !.is_idempotent = is_idempotent,
                                             !.max_attempts = max_attempts,
                                             !.has_enforcer = has_enforcer,
                                             !.raised = "RuntimeError",
                                             !.result = "raised"]
                      ELSE [IdleRetry EXCEPT !.phase = "running", !.action = action,
                                             !.op = "execute_action",
                                             !.is_idempotent = is_idempotent,
                                             !.max_attempts = max_attempts,
                                             !.has_enforcer = has_enforcer,
                                             !.attempt = 1]
    /\ UNCHANGED aeVars
    /\ UNCHANGED <<lcVars, rtVars, fnVars, sched, flow>>

\* one pass of "for attempt in range(1, self.max_attempts + 1)", up to the sleep
RetryAttempt ==
    /\ retry.phase = "running"
    /\ \E env \in Envs(retry.action) :
       \E r \in {execute_action(retry.action, tracker, now, env)} :
          /\ tracker' = Recorded(tracker, r.steps)
          /\ invoked' = invoked + CountSteps(r.steps, "execute")
          /\ ctx_invoked' = ctx_invoked + CountSteps(r.steps, "execute")
          /\ last' = Call("executor", retry.action, tracker, now, env.svc_perm, "runtime", r)
          /\ retry' =
               IF r.raised = "none"
               THEN [retry EXCEPT !.phase = "done", !.invocations = @ + 1,
                                  !.t = now, !.result = "returned"]
               ELSE IF ~should_retry(classify(r.raised), retry.attempt,
                                     retry.is_idempotent, retry.max_attempts,
                                     retry.has_enforcer, Recorded(tracker, r.steps), now)
                       \/ retry.attempt + 1 > retry.max_attempts
               THEN [retry EXCEPT !.phase = "done", !.invocations = @ + 1,
                                  !.kinds = @ \cup {r.raised},
                                  !.raised = r.raised, !.reason = r.reason,
                                  !.t = now, !.result = "raised"]
               ELSE [retry EXCEPT !.attempt = @ + 1, !.invocations = @ + 1,
                                  !.sleeps = @ + 1,
                                  !.kinds = @ \cup {r.raised},
                                  !.raised = r.raised, !.reason = r.reason,
                                  !.t = now]
    /\ UNCHANGED <<cfg, now>>
    /\ UNCHANGED <<lcVars, rtVars, fnVars, sched, flow>>

NextRetry ==
    \/ Tick
    \/ RetryStart
    \/ RetryAttempt

SpecRetry == Init /\ [][NextRetry]_vars

\* ------------------------------------------- execute_with_retry, any callable
\* What the operation does when invoked: returns or raises, and whether it
\* consumed one call of the budget the policy's enforcer watches.
OpExceptions == {"TimeoutError", "PermissionError", "ConnectionError"}

OpOutcomes == [raises : OpExceptions \cup {"none"}, records : BOOLEAN]

\* execute_with_retry(operation, ...): entry, up to the first attempt
RetryStartOp ==
    /\ retry.phase = "idle"
    /\ \E is_idempotent \in BOOLEAN, max_attempts \in 0..MaxAttemptsBound,
          has_enforcer \in BOOLEAN :
          retry' = IF max_attempts < 1
                   THEN [IdleRetry EXCEPT !.phase = "done", !.op = "callable",
                                          !.is_idempotent = is_idempotent,
                                          !.max_attempts = max_attempts,
                                          !.has_enforcer = has_enforcer,
                                          !.raised = "RuntimeError",
                                          !.result = "raised"]
                   ELSE [IdleRetry EXCEPT !.phase = "running", !.op = "callable",
                                          !.is_idempotent = is_idempotent,
                                          !.max_attempts = max_attempts,
                                          !.has_enforcer = has_enforcer,
                                          !.attempt = 1]
    /\ UNCHANGED aeVars
    /\ UNCHANGED <<lcVars, rtVars, fnVars, sched, flow>>

\* one pass of "for attempt in range(1, self.max_attempts + 1)", up to the sleep
RetryAttemptOp ==
    /\ retry.phase = "running"
    /\ \E o \in OpOutcomes :
       \E tr \in {IF o.records THEN [tracker EXCEPT !.call_count = @ + 1] ELSE tracker} :
          /\ tracker' = tr
          /\ retry' =
               IF o.raises = "none"
               THEN [retry EXCEPT !.phase = "done", !.invocations = @ + 1,
                                  !.t = now, !.result = "returned"]
               ELSE IF ~should_retry(classify(o.raises), retry.attempt,
                                     retry.is_idempotent, retry.max_attempts,
                                     retry.has_enforcer, tr, now)
                       \/ retry.attempt + 1 > retry.max_attempts
               THEN [retry EXCEPT !.phase = "done", !.invocations = @ + 1,
                                  !.kinds = @ \cup {o.raises},
                                  !.raised = o.raises, !.reason = "operation_raised",
                                  !.t = now, !.result = "raised"]
               ELSE [retry EXCEPT !.attempt = @ + 1, !.invocations = @ + 1,
                                  !.sleeps = @ + 1,
                                  !.kinds = @ \cup {o.raises},
                                  !.raised = o.raises, !.reason = "operation_raised",
                                  !.t = now]
    /\ UNCHANGED <<cfg, now, invoked, ctx_invoked, last>>
    /\ UNCHANGED <<lcVars, rtVars, fnVars, sched, flow>>

\* A RetryPolicy whose enforcer, when attached, watches the caller's tracker.
InitRetryOp ==
    /\ \E b \in 1..Len(BudgetConfigs) :
          cfg = [permissions |-> GrantConfigs[1], policies |-> PolicyConfigs[1],
                 budget |-> BudgetConfigs[b]]
    /\ tracker = NewTracker(0)
    /\ now = 0
    /\ invoked = 0
    /\ ctx_invoked = 0
    /\ last = NoCall
    /\ retry = IdleRetry
    /\ InitLifecycle
    /\ InitRuntime
    /\ InitCalls
    /\ InitNoScheduler
    /\ InitNoFlow

NextRetryOp ==
    \/ Tick
    \/ RetryStartOp
    \/ RetryAttemptOp

SpecRetryOp == InitRetryOp /\ [][NextRetryOp]_vars

\* The loop goes on: the operation returns or raises, and the sleep ends.
SpecRetryOpFair == SpecRetryOp /\ WF_vars(RetryAttemptOp)

\* ---------------------------------------------------------------- lifecycle
\* LifecycleManager.transition_to
\* Variant: the event is recorded before the transition is validated.
transition_to_records_first ==
    \E new_state \in LifecycleStates, metadata \in Metadatas :
        /\ lc_events' = IF event_map(new_state) # ""
                        THEN Append(lc_events, <<event_map(new_state), metadata>>)
                        ELSE lc_events
        /\ IF new_state \notin valid_transitions(lc_state)
           THEN /\ lc_last' = [from |-> lc_state, to |-> new_state, result |-> "ValueError"]
                /\ UNCHANGED <<lc_state, lc_calls>>
           ELSE /\ lc_state' = new_state
                /\ lc_last' = [from |-> lc_state, to |-> new_state, result |-> "ok"]
                /\ lc_calls' = Append(lc_calls, <<new_state, metadata>>)

transition_to ==
    \E new_state \in LifecycleStates, metadata \in Metadatas :
        IF new_state \notin valid_transitions(lc_state)
        THEN /\ lc_last' = [from |-> lc_state, to |-> new_state, result |-> "ValueError"]
             /\ UNCHANGED <<lc_state, lc_events, lc_calls>>
        ELSE /\ lc_events' = IF event_map(new_state) # ""
                             THEN Append(lc_events, <<event_map(new_state), metadata>>)
                             ELSE lc_events
             /\ lc_state' = new_state
             /\ lc_last' = [from |-> lc_state, to |-> new_state, result |-> "ok"]
             /\ lc_calls' = Append(lc_calls, <<new_state, metadata>>)

\* A LifecycleManager driven by arbitrary transition_to calls.
InitLifecycleOnly ==
    /\ cfg = [permissions |-> GrantConfigs[1], policies |-> PolicyConfigs[1],
              budget |-> BudgetConfigs[1]]
    /\ tracker = NoTracker
    /\ now = 0
    /\ invoked = 0
    /\ ctx_invoked = 0
    /\ last = NoCall
    /\ retry = IdleRetry
    /\ InitLifecycle
    /\ InitRuntime
    /\ InitCalls
    /\ InitNoScheduler
    /\ InitNoFlow

NextLifecycle == transition_to /\ UNCHANGED <<aeVars, retry, rtVars, fnVars, sched, flow>>

SpecLifecycle == InitLifecycleOnly /\ [][NextLifecycle]_vars


\* ------------------------------------------------------------------- Router
\* Agent ids are numbered in their string order (1 < 2 < 3 as "agent_a" <
\* "agent_b" < "agent_c"); 0 is an agent_id that was not given.
AgentKeys == 1..MaxAgents

Capabilities == {"cap1", "cap2"}

\* Router.agents: a dict in registration order, one entry per id
RECURSIVE Registries(_)
Registries(n) ==
    IF n = 0 THEN {<<>>}
    ELSE LET shorter == Registries(n - 1)
         IN shorter \cup
            {Append(reg, [id |-> k, capabilities |-> c]) :
                reg \in {x \in shorter : Len(x) = n - 1},
                k \in AgentKeys, c \in SUBSET Capabilities}

DistinctIds(reg) == \A i, j \in 1..Len(reg) : reg[i].id = reg[j].id => i = j

\* list.sort(key=lambda x: x[0])
RECURSIVE SortById(_)
SortById(seq) ==
    IF seq = <<>> THEN <<>>
    ELSE LET m == CHOOSE i \in 1..Len(seq) : \A j \in 1..Len(seq) : seq[i].id <= seq[j].id
         IN <<seq[m]>> \o SortById(SubSeq(seq, 1, m - 1) \o SubSeq(seq, m + 1, Len(seq)))

RoutingError == [raised |-> "RoutingError", agent |-> 0]

Selected(id) == [raised |-> "none", agent |-> id]

\* Variant: the first matching agent in registration order is taken.
Router_select_agent_unsorted(agents, agent_id, required_capabilities) ==
    IF agent_id # 0
    THEN IF \E i \in 1..Len(agents) : agents[i].id = agent_id
         THEN Selected(agent_id)
         ELSE RoutingError
    ELSE IF required_capabilities.has
    THEN LET Matches(e) == required_capabilities.v \subseteq e.capabilities
             matching_agents == SelectSeq(agents, Matches)
         IN IF matching_agents = <<>> THEN RoutingError
            ELSE Selected(matching_agents[1].id)
    ELSE RoutingError

\* Router.select_agent (required_capabilities: [has, v], v the set of the list)
Router_select_agent(agents, agent_id, required_capabilities) ==
    IF agent_id # 0
    THEN IF \E i \in 1..Len(agents) : agents[i].id = agent_id
         THEN Selected(agent_id)
         ELSE RoutingError
    ELSE IF required_capabilities.has
    THEN LET Matches(e) == required_capabilities.v \subseteq e.capabilities
             matching_agents == SelectSeq(agents, Matches)
         IN IF matching_agents = <<>> THEN RoutingError
            ELSE IF Len(matching_agents) > 1
            THEN Selected(SortById(matching_agents)[1].id)
            ELSE Selected(matching_agents[1].id)
    ELSE RoutingError

\* The pure-function specifications start like this, apart from fn_call.
InitIdle ==
    /\ cfg = [permissions |-> GrantConfigs[1], policies |-> PolicyConfigs[1],
              budget |-> BudgetConfigs[1]]
    /\ tracker = NoTracker
    /\ now = 0
    /\ invoked = 0
    /\ ctx_invoked = 0
    /\ last = NoCall
    /\ retry = IdleRetry
    /\ InitLifecycle
    /\ InitRuntime
    /\ sr_call = NoShouldRetry
    /\ cb_call = NoCheckBudget

\* A Router over any registry, asked with any arguments.
InitRouter ==
    /\ InitIdle
    /\ InitNoScheduler
    /\ InitNoFlow
    /\ \E agents \in {reg \in Registries(MaxAgents) : DistinctIds(reg)},
          agent_id \in {0} \cup AgentKeys,
          required_capabilities \in
              {[has |-> FALSE, v |-> {}]} \cup [has : {TRUE}, v : SUBSET Capabilities] :
          fn_call = FnCall("select_agent",
                           [agents |-> agents, agent_id |-> agent_id,
                            required_capabilities |-> required_capabilities])

CallSelectAgent ==
    /\ fn_call.fn = "select_agent"
    /\ ~fn_call.done
    /\ fn_call' = [fn_call EXCEPT
                      !.done = TRUE,
                      !.result = Router_select_agent(fn_call.args.agents,
                                                     fn_call.args.agent_id,
                                                     fn_call.args.required_capabilities)]
    /\ UNCHANGED <<aeVars, retry, lcVars, rtVars, sr_call, cb_call, sched, flow>>

NextRouter == CallSelectAgent

SpecRouter == InitRouter /\ [][NextRouter]_vars

\* ------------------------------------------------------- permissions alone
\* What check_permissions does: returns True, or raises PermissionError whose
\* message lists missing_permissions.
\* Variant: the message names only the first missing permission.
PermissionCheck_first_missing(required, available) ==
    IF check_permissions(required, available)
    THEN [ok |-> TRUE, missing |-> <<>>]
    ELSE [ok |-> FALSE, missing |-> <<MissingPermissions(required, available)[1]>>]

PermissionCheck(required, available) ==
    IF check_permissions(required, available)
    THEN [ok |-> TRUE, missing |-> <<>>]
    ELSE [ok |-> FALSE, missing |-> MissingPermissions(required, available)]

\* Grant dicts mixing the three forms: direct flags for "read" and "write",
\* the "permissions" key, and nested dicts under "tools" and "svc".
OptionalEntry(k, values) == {<<>>} \cup {<<Entry(k, v)>> : v \in values}

NestedDicts ==
    {DictV(r \o w) :
        r \in {<<>>, << <<"read", "bool", TRUE>> >>, << <<"read", "bool", FALSE>> >>,
                << <<"read", "other", FALSE>> >>},
        w \in {<<>>, << <<"write", "bool", TRUE>> >>}}

PermissionGrants ==
    {a \o b \o c \o d \o e :
        a \in OptionalEntry("read", {BoolV(TRUE), BoolV(FALSE), OtherV}),
        b \in OptionalEntry("write", {BoolV(TRUE), BoolV(FALSE)}),
        c \in OptionalEntry("permissions",
                             {ListV(<<>>), ListV(<<"read">>), ListV(<<"read", "write">>),
                              OtherV, DictV(<< <<"write", "bool", TRUE>> >>)}),
        d \in OptionalEntry("tools", NestedDicts),
        e \in OptionalEntry("svc", {DictV(<< <<"read", "bool", TRUE>> >>)})}

RequiredLists == {<<>>, <<"read">>, <<"write">>, <<"read", "write">>, <<"write", "read">>}

\* A PermissionEvaluator over any grants, asked about one name or a list.
InitPermissions ==
    /\ InitIdle
    /\ InitNoScheduler
    /\ InitNoFlow
    /\ \E available \in PermissionGrants :
          \/ \E permission \in {"read", "write"} :
                fn_call = FnCall("_has_permission",
                                 [permission |-> permission, available |-> available])
          \/ \E required \in RequiredLists :
                fn_call = FnCall("check_permissions",
                                 [required |-> required, available |-> available])

CallHasPermission ==
    /\ fn_call.fn = "_has_permission"
    /\ ~fn_call.done
    /\ fn_call' = [fn_call EXCEPT
                      !.done = TRUE,
                      !.result = _has_permission(fn_call.args.permission,
                                                 fn_call.args.available)]
    /\ UNCHANGED <<aeVars, retry, lcVars, rtVars, sr_call, cb_call, sched, flow>>

CallCheckPermissions ==
    /\ fn_call.fn = "check_permissions"
    /\ ~fn_call.done
    /\ fn_call' = [fn_call EXCEPT
                      !.done = TRUE,
                      !.result = PermissionCheck(fn_call.args.required,
                                                 fn_call.args.available)]
    /\ UNCHANGED <<aeVars, retry, lcVars, rtVars, sr_call, cb_call, sched, flow>>

NextPermissions ==
    \/ CallHasPermission
    \/ CallCheckPermissions

SpecPermissions == InitPermissions /\ [][NextPermissions]_vars

\* ------------------------------------------------------------ policy alone
MaxPolicies == 3       \* entries of a policy dict

PolicyKeys == {<<"tool", "execute">>, <<"tool", "*">>, <<"tool", "sub", "*">>,
               <<"service", "*">>}

PolicyActions == {<<"tool", "execute">>, <<"tool", "read">>, <<"tool", "sub", "run">>,
                  <<"service", "read">>, <<"other">>}

PolicyValues == {Outcome(o) : o \in PolicyOutcomes} \cup {NoOutcome}

\* Policy dicts of n entries with distinct keys, in every insertion order.
RECURSIVE PolicyDicts(_)
PolicyDicts(n) ==
    IF n = 0 THEN {<<>>}
    ELSE LET shorter == PolicyDicts(n - 1)
         IN shorter \cup
            {Append(d, Entry(k, v)) :
                d \in {x \in shorter : Len(x) = n - 1}, k \in PolicyKeys, v \in PolicyValues}

DistinctKeys(d) == \A i, j \in 1..Len(d) : d[i].key = d[j].key => i = j

\* A PolicyEngine over any policy dict, asked about one action.
InitPolicy ==
    /\ InitIdle
    /\ InitNoScheduler
    /\ InitNoFlow
    /\ \E policies \in {d \in PolicyDicts(MaxPolicies) : DistinctKeys(d)},
          action \in PolicyActions :
          fn_call = FnCall("evaluate_policy", [action |-> action, policies |-> policies])

CallEvaluatePolicy ==
    /\ fn_call.fn = "evaluate_policy"
    /\ ~fn_call.done
    /\ fn_call' = [fn_call EXCEPT
                      !.done = TRUE,
                      !.result = evaluate_policy(fn_call.args.action, fn_call.args.policies)]
    /\ UNCHANGED <<aeVars, retry, lcVars, rtVars, sr_call, cb_call, sched, flow>>

NextPolicy == CallEvaluatePolicy

SpecPolicy == InitPolicy /\ [][NextPolicy]_vars

\* ------------------------------------------- propagate_execution_context
MaxChain == 2         \* propagations chained from one created context
MaxMetadata == 2      \* entries of a metadata dict

ExecutionContext(run_id, correlation_id, initiator, permissions, budget, locale, observability, metadata) ==
    [run_id |-> run_id, correlation_id |-> correlation_id, initiator |-> initiator,
     permissions |-> permissions, budget |-> budget, locale |-> locale,
     observability |-> observability, metadata |-> metadata]

\* {**old, **new}: the old keys keep their place and take the new value, the
\* new keys follow in their own order.
MergeDicts(old, new) ==
    [i \in 1..Len(old) |->
        IF HasKey(new, old[i].key) THEN Entry(old[i].key, Lookup(new, old[i].key))
        ELSE old[i]]
    \o SelectSeq(new, LAMBDA e : ~HasKey(old, e.key))

\* The context passed in as it is after the call, and the context returned.
\* Variant: the updates are merged into the original's metadata dict.
propagate_execution_context_in_place(context, metadata_updates) ==
    LET updates == IF metadata_updates.has THEN metadata_updates.v ELSE <<>>
        updated_metadata == MergeDicts(context.metadata, updates)
    IN [context |-> [context EXCEPT !.metadata = updated_metadata],
        result |-> ExecutionContext(context.run_id, context.correlation_id,
                                    context.initiator, context.permissions,
                                    context.budget, context.locale,
                                    context.observability, updated_metadata)]

propagate_execution_context(context, metadata_updates) ==
    LET updates == IF metadata_updates.has THEN metadata_updates.v ELSE <<>>
        updated_metadata == MergeDicts(context.metadata, updates)
    IN [context |-> context,
        result |-> ExecutionContext(context.run_id, context.correlation_id,
                                    context.initiator, context.permissions,
                                    context.budget, context.locale,
                                    context.observability, updated_metadata)]

\* Metadata dicts of up to n entries with distinct keys, in every order.
RECURSIVE MetadataDicts(_)
MetadataDicts(n) ==
    IF n = 0 THEN {<<>>}
    ELSE LET shorter == MetadataDicts(n - 1)
         IN shorter \cup
            {Append(d, Entry(k, v)) :
                d \in {x \in shorter : Len(x) = n - 1},
                k \in {"step", "key"}, v \in {1, 2}}

\* metadata_updates: None or a dict.
MetadataUpdates ==
    {[has |-> FALSE, v |-> <<>>]}
    \cup {[has |-> TRUE, v |-> d] : d \in {x \in MetadataDicts(MaxMetadata) : DistinctKeys(x)}}

\* What create_execution_context can return: two contexts that differ in
\* every field, over every metadata dict.
CreatedContexts ==
    {ExecutionContext(1, 3, "user:test", <<>>, <<>>, "en-US", <<>>, metadata) :
        metadata \in {x \in MetadataDicts(MaxMetadata) : DistinctKeys(x)}}
    \cup
    {ExecutionContext(2, 4, "system", <<Entry("read", BoolV(TRUE))>>,
                      <<Entry("call_limit", 1)>>, "pt-BR", <<Entry("trace_id", 1)>>,
                      metadata) :
        metadata \in {x \in MetadataDicts(MaxMetadata) : DistinctKeys(x)}}

PropagateCall(root, context, metadata_updates, depth) ==
    FnCall("propagate_execution_context",
           [root |-> root, context |-> context, metadata_updates |-> metadata_updates,
            depth |-> depth])

\* A created context about to be propagated.
InitPropagate ==
    /\ InitIdle
    /\ InitNoScheduler
    /\ InitNoFlow
    /\ \E context \in CreatedContexts, metadata_updates \in MetadataUpdates :
          fn_call = PropagateCall(context, context, metadata_updates, 1)

CallPropagate ==
    /\ fn_call.fn = "propagate_execution_context"
    /\ ~fn_call.done
    /\ fn_call' = [fn_call EXCEPT
                      !.done = TRUE,
                      !.result = propagate_execution_context(fn_call.args.context,
                                                             fn_call.args.metadata_updates)]
    /\ UNCHANGED <<aeVars, retry, lcVars, rtVars, sr_call, cb_call, sched, flow>>

\* The context returned is propagated in turn.
ChainPropagate ==
    /\ fn_call.fn = "propagate_execution_context"
    /\ fn_call.done
    /\ fn_call.args.depth < MaxChain
    /\ \E metadata_updates \in MetadataUpdates :
          fn_call' = PropagateCall(fn_call.args.root, fn_call.result.result,
                                   metadata_updates, fn_call.args.depth + 1)
    /\ UNCHANGED <<aeVars, retry, lcVars, rtVars, sr_call, cb_call, sched, flow>>

NextPropagate ==
    \/ CallPropagate
    \/ ChainPropagate

SpecPropagate == InitPropagate /\ [][NextPropagate]_vars

\* --------------------------------------------------------- Scheduler alone
\* Scheduler._start_task, called by caller: the task is registered as running
\* and its thread started.
_start_task(s, task, caller) ==
    [s EXCEPT !.running_tasks = @ \cup {task.task_id},
              !.thread[task.task_id] = "execute_fn",
              !.started_from[task.task_id] = caller]

\* Scheduler._try_start_next_task
_try_start_next_task(s) ==
    IF Cardinality(s.running_tasks) >= s.max_concurrency THEN s
    ELSE IF s.pending_queue = <<>> THEN s
    ELSE LET popped == heappop(s.pending_queue)
         IN _start_task([s EXCEPT !.pending_queue = popped.heap], popped.item, "queue")

\* Scheduler.schedule accepts the task id (otherwise it raises ValueError).
Accepts(s, task_id) ==
    /\ task_id \notin s.running_tasks
    /\ s.task_completion_events[task_id] = "none"

\* Scheduler.schedule of an accepted task id
\* Variant: a task starts at once while the running count is at most the limit.
schedule_over_limit(s, task_id, priority) ==
    LET task == ScheduledTask(priority, task_id, s.clock, s.fairness_counters[priority])
        s1 == [s EXCEPT !.fairness_counters[priority] = @ + 1,
                        !.task[task_id] = task,
                        !.task_completion_events[task_id] = "clear",
                        !.clock = @ + 1]
    IN IF Cardinality(s.running_tasks) <= s.max_concurrency
       THEN _start_task(s1, task, "schedule")
       ELSE [s1 EXCEPT !.pending_queue = heappush(@, task)]

schedule(s, task_id, priority) ==
    LET task == ScheduledTask(priority, task_id, s.clock, s.fairness_counters[priority])
        s1 == [s EXCEPT !.fairness_counters[priority] = @ + 1,
                        !.task[task_id] = task,
                        !.task_completion_events[task_id] = "clear",
                        !.clock = @ + 1]
    IN IF Cardinality(s.running_tasks) < s.max_concurrency
       THEN _start_task(s1, task, "schedule")
       ELSE [s1 EXCEPT !.pending_queue = heappush(@, task)]

\* task_wrapper: execute_fn ended by returning ("return"), raising an
\* Exception ("raise") or raising a BaseException that is not an Exception
\* ("raise_base": SystemExit from sys.exit(), asyncio.CancelledError,
\* KeyboardInterrupt); its result is stored by the try block, its error by
\* "except Exception", and what that clause does not catch goes straight to
\* the finally block.
\* Variant: the handler catches every exception.
task_wrapper_try_catches_all(s, task_id, outcome) ==
    [s EXCEPT !.task_results = IF outcome = "return" THEN @ \cup {task_id}
                               ELSE @ \ {task_id},
              !.task_errors = IF outcome # "return" THEN @ \cup {task_id}
                              ELSE @ \ {task_id},
              !.thread[task_id] = "finally"]

task_wrapper_try(s, task_id, outcome) ==
    [s EXCEPT !.task_results = IF outcome = "return" THEN @ \cup {task_id}
                               ELSE @ \ {task_id},
              !.task_errors = IF outcome = "raise" THEN @ \cup {task_id}
                              ELSE @ \ {task_id},
              !.thread[task_id] = "finally"]

\* task_wrapper: the finally block.
task_wrapper_finally(s, task_id) ==
    _try_start_next_task(
        [s EXCEPT !.running_tasks = @ \ {task_id},
                  !.task_completion_events[task_id] = "set",
                  !.thread[task_id] = "done"])

\* Scheduler.get_result once the wait on the completion event is over: the
\* stored error is raised, else the stored result returned, else KeyError.
get_result(s, task_id) ==
    IF s.task_completion_events[task_id] = "clear" THEN "waiting"
    ELSE IF task_id \in s.task_errors THEN "raise_error"
    ELSE IF task_id \in s.task_results THEN "return_result"
    ELSE IF s.task_completion_events[task_id] = "none" THEN "KeyError_not_found"
    ELSE "KeyError_result_not_found"

\* A Scheduler built with any concurrency limit.
InitScheduler ==
    /\ InitIdle
    /\ fn_call = NoFnCall
    /\ \E max_concurrency \in 0..MaxConcurrency : sched = NewScheduler(max_concurrency)
    /\ InitNoFlow

\* A caller schedules a task under an id it has not used; ids are used in
\* increasing order.
Schedule ==
    /\ \E task_id \in TaskIds, priority \in Priorities :
          /\ Accepts(sched, task_id)
          /\ \A other \in TaskIds : Accepts(sched, other) => task_id <= other
          /\ sched' = schedule(sched, task_id, priority)
    /\ UNCHANGED <<aeVars, retry, lcVars, rtVars, fnVars, flow>>

\* The thread of a started task runs execute_fn to its end.
TaskExecute(task_id) ==
    /\ sched.thread[task_id] = "execute_fn"
    /\ \E outcome \in {"return", "raise"} :
          sched' = task_wrapper_try(sched, task_id, outcome)
    /\ UNCHANGED <<aeVars, retry, lcVars, rtVars, fnVars, flow>>

\* The thread takes the lock and runs the finally block.
TaskFinally(task_id) ==
    /\ sched.thread[task_id] = "finally"
    /\ sched' = task_wrapper_finally(sched, task_id)
    /\ UNCHANGED <<aeVars, retry, lcVars, rtVars, fnVars, flow>>

NextScheduler ==
    \/ Schedule
    \/ \E task_id \in TaskIds : TaskExecute(task_id)
    \/ \E task_id \in TaskIds : TaskFinally(task_id)

SpecScheduler == InitScheduler /\ [][NextScheduler]_vars

\* The thread of a started task leaves execute_fn with an exception that
\* "except Exception" does not catch.
TaskEscape(task_id) ==
    /\ sched.thread[task_id] = "execute_fn"
    /\ sched' = task_wrapper_try(sched, task_id, "raise_base")
    /\ UNCHANGED <<aeVars, retry, lcVars, rtVars, fnVars, flow>>

\* The Scheduler with tasks that end in any way.
NextSchedulerAnyEnding ==
    \/ Schedule
    \/ \E task_id \in TaskIds : TaskExecute(task_id)
    \/ \E task_id \in TaskIds : TaskEscape(task_id)
    \/ \E task_id \in TaskIds : TaskFinally(task_id)

SpecSchedulerAnyEnding == InitScheduler /\ [][NextSchedulerAnyEnding]_vars

\* ------------------------------------------- Scheduler, unending arrivals
\* A Scheduler whose callers keep scheduling tasks under ids never used
\* before. The state is kept finite by what the code cannot tell apart: a
\* completed task nothing asks about again leaves the tables and its place
\* stands for the next unused id (Forget), and the per-priority counters,
\* enqueue times and clock are moved down together to those of the tasks
\* still queued (Rebase), which leaves every __lt__ comparison as it was.
Forget(s, task_id) ==
    IF s.task_completion_events[task_id] = "set"
    THEN [s EXCEPT !.task_completion_events[task_id] = "none",
                   !.task_results = @ \ {task_id},
                   !.task_errors = @ \ {task_id},
                   !.task[task_id] = NoTask,
                   !.thread[task_id] = "none",
                   !.started_from[task_id] = "none"]
    ELSE s

Rebase(s) ==
    LET queued == Range(s.pending_queue)
        level(p) == {t \in queued : t.priority = p}
        base(p) == IF level(p) = {} THEN s.fairness_counters[p]
                   ELSE Min({t.fairness_counter : t \in level(p)})
        rank(t) == Cardinality({u \in queued : u.enqueue_time < t.enqueue_time})
        moved(t) == [t EXCEPT !.fairness_counter = @ - base(t.priority),
                              !.enqueue_time = rank(t)]
    IN [s EXCEPT !.pending_queue = [i \in 1..Len(s.pending_queue) |->
                                        moved(s.pending_queue[i])],
                 !.fairness_counters = [p \in Priorities |->
                                            s.fairness_counters[p] - base(p)],
                 !.task = [id \in TaskIds |->
                              IF s.task[id] \in queued THEN moved(s.task[id])
                              ELSE [s.task[id] EXCEPT !.fairness_counter = 0,
                                                      !.enqueue_time = 0]],
                 !.clock = Cardinality(queued)]

\* A Scheduler with room for at least one running task.
InitSchedulerStream ==
    /\ InitIdle
    /\ fn_call = NoFnCall
    /\ \E max_concurrency \in 1..MaxConcurrency : sched = NewScheduler(max_concurrency)
    /\ InitNoFlow

\* schedule is called with an id never used before.
ScheduleFresh ==
    /\ \E task_id \in TaskIds, priority \in Priorities :
          \E s \in {Rebase(Forget(sched, task_id))} :
             /\ Accepts(s, task_id)
             /\ sched' = schedule(s, task_id, priority)
    /\ UNCHANGED <<aeVars, retry, lcVars, rtVars, fnVars, flow>>

NextSchedulerStream ==
    \/ ScheduleFresh
    \/ \E task_id \in TaskIds : TaskExecute(task_id)
    \/ \E task_id \in TaskIds : TaskFinally(task_id)

\* Every started thread runs: execute_fn ends and the finally block follows.
SpecSchedulerStream ==
    /\ InitSchedulerStream
    /\ [][NextSchedulerStream]_vars
    /\ \A task_id \in TaskIds :
          WF_vars(TaskExecute(task_id)) /\ WF_vars(TaskFinally(task_id))

\* ------------------------------------------------------- flow engine alone
NodeResults == {"success", "failed", "raise"}

\* An engine built for any of the flows.
InitFlow ==
    /\ InitIdle
    /\ fn_call = NoFnCall
    /\ InitNoScheduler
    /\ \E def \in Flows : flow = NewFlowEngine(def)

\* execute is called: the loop starts at the entrypoint.
FlowExecute ==
    /\ flow.pc = "idle"
    /\ flow' = [flow EXCEPT !.pc = "loop", !.current_node = flow.def.entrypoint]
    /\ UNCHANGED <<aeVars, retry, lcVars, rtVars, fnVars, sched>>

FlowIterate ==
    /\ flow.pc = "loop"
    /\ \E node_result \in NodeResults : flow' = execute_iteration(flow, node_result)
    /\ UNCHANGED <<aeVars, retry, lcVars, rtVars, fnVars, sched>>

NextFlow ==
    \/ FlowExecute
    \/ FlowIterate

SpecFlow == InitFlow /\ [][NextFlow]_vars

\* ------------------------------------------------------ get_retry_delay alone
\* Delays are counted in tenths of a second, so that a tenth of a delay
\* (the jitter's upper end) is a whole number for the delays drawn here.
RECURSIVE Pow(_, _)
Pow(base, exponent) == IF exponent = 0 THEN 1 ELSE base * Pow(base, exponent - 1)

\* "random.uniform(0.0, delay * 0.1)": any value from 0 to a tenth of delay.
JitterValues(delay) == 0..(delay \div 10)

\* RetryPolicy.get_retry_delay, with the value random.uniform returned.
get_retry_delay(self, attempt, jitter) ==
    LET delay == self.initial_delay * Pow(self.exponential_base, attempt - 1)
        capped == Min({delay, self.max_delay})
    IN capped + jitter

\* The backoff before the jitter is added.
CappedBackoff(self, attempt) == get_retry_delay(self, attempt, 0)

\* RetryPolicy(initial_delay=1.0 or 2.0, max_delay=1.0, 3.0 or 5.0,
\* exponential_base=1.0, 2.0 or 3.0) asked for the delay of any attempt.
InitRetryDelay ==
    /\ InitIdle
    /\ InitNoScheduler
    /\ InitNoFlow
    /\ \E initial_delay \in {10, 20}, max_delay \in {10, 30, 50},
          exponential_base \in {1, 2, 3}, attempt \in 1..MaxAttemptsBound :
          fn_call = FnCall("get_retry_delay",
                           [self |-> [initial_delay |-> initial_delay,
                                      max_delay |-> max_delay,
                                      exponential_base |-> exponential_base],
                            attempt |-> attempt])

CallGetRetryDelay ==
    /\ fn_call.fn = "get_retry_delay"
    /\ ~fn_call.done
    /\ \E jitter \in JitterValues(CappedBackoff(fn_call.args.self, fn_call.args.attempt)) :
          fn_call' = [fn_call EXCEPT
                         !.done = TRUE,
                         !.result = get_retry_delay(fn_call.args.self,
                                                    fn_call.args.attempt, jitter)]
    /\ UNCHANGED <<aeVars, retry, lcVars, rtVars, sr_call, cb_call, sched, flow>>

NextRetryDelay == CallGetRetryDelay

SpecRetryDelay == InitRetryDelay /\ [][NextRetryDelay]_vars

\* ------------------------------------------------------ should_retry alone
\* A RetryPolicy, with or without a BudgetEnforcer, asked about any error at
\* any attempt.
InitShouldRetry ==
    /\ \E b \in 1..Len(BudgetConfigs) :
          cfg = [permissions |-> GrantConfigs[1], policies |-> PolicyConfigs[1],
                 budget |-> BudgetConfigs[b]]
    /\ tracker = NoTracker
    /\ now = 0
    /\ invoked = 0
    /\ ctx_invoked = 0
    /\ last = NoCall
    /\ retry = IdleRetry
    /\ InitLifecycle
    /\ InitRuntime
    /\ cb_call = NoCheckBudget
    /\ fn_call = NoFnCall
    /\ InitNoScheduler
    /\ InitNoFlow
    /\ \E error \in Errors, attempt \in 1..MaxAttemptsBound,
          is_idempotent \in BOOLEAN, max_attempts \in 0..MaxAttemptsBound,
          has_enforcer \in BOOLEAN, n \in 0..1, t \in 0..MaxTime :
          sr_call = ShouldRetryCall(error, attempt, is_idempotent, max_attempts,
                                    has_enforcer,
                                    [NewTracker(0) EXCEPT !.call_count = n], t)

CallShouldRetry ==
    /\ ~sr_call.done
    /\ sr_call' = [sr_call EXCEPT
                      !.done = TRUE,
                      !.result = should_retry(sr_call.error, sr_call.attempt,
                                              sr_call.is_idempotent, sr_call.max_attempts,
                                              sr_call.has_enforcer, sr_call.tr, sr_call.t)]
    /\ UNCHANGED <<aeVars, retry, lcVars, rtVars, cb_call, fn_call, sched, flow>>

NextShouldRetry == CallShouldRetry

SpecShouldRetry == InitShouldRetry /\ [][NextShouldRetry]_vars

\* ------------------------------------------------------ check_budget alone
\* A BudgetEnforcer asked at any consumption under any limits.
InitCheckBudget ==
    /\ cfg = [permissions |-> GrantConfigs[1], policies |-> PolicyConfigs[1],
              budget |-> BudgetConfigs[1]]
    /\ tracker = NoTracker
    /\ now = 0
    /\ invoked = 0
    /\ ctx_invoked = 0
    /\ last = NoCall
    /\ retry = IdleRetry
    /\ InitLifecycle
    /\ InitRuntime
    /\ sr_call = NoShouldRetry
    /\ fn_call = NoFnCall
    /\ InitNoScheduler
    /\ InitNoFlow
    /\ \E tr \in Trackers, budget \in Budgets, t \in 0..MaxConsumed :
          cb_call = CheckBudgetCall(tr, budget, t)

CallCheckBudget ==
    /\ ~cb_call.done
    /\ cb_call' = [cb_call EXCEPT
                      !.done = TRUE,
                      !.result = check_budget(cb_call.tr, cb_call.budget, cb_call.t)]
    /\ UNCHANGED <<aeVars, retry, lcVars, rtVars, sr_call, fn_call, sched, flow>>

NextCheckBudget == CallCheckBudget

SpecCheckBudget == InitCheckBudget /\ [][NextCheckBudget]_vars

\* ------------------------------------------------------------------ Runtime
\* Runtime.get_lifecycle_events
get_lifecycle_events ==
    IF last_lifecycle = 0 THEN <<>> ELSE runs[last_lifecycle].lc.events

\* execute_agent up to the agent selection: the context and the
\* LifecycleManager are made, _last_lifecycle is assigned, READY is entered.
\* Calls are numbered in the order they start.
AgentStart(r) ==
    /\ runs[r].pc = "idle"
    /\ IF r = 1 THEN TRUE ELSE runs[r - 1].pc # "idle"
    /\ \E agent_id \in AgentRequests :
          runs' = [runs EXCEPT ![r] =
                      [IdleRun EXCEPT !.pc = "selecting",
                                      !.agent_id = agent_id,
                                      !.lc = lifecycle_transition_to(NewLifecycle, "READY", "None")]]
    /\ last_lifecycle' = r
    /\ UNCHANGED completed

\* Variant: a failed selection raises without touching the lifecycle.
AgentSelect_untouched(r) ==
    /\ runs[r].pc = "selecting"
    /\ IF select_agent(runs[r].agent_id) = "RoutingError"
       THEN /\ runs' = [runs EXCEPT ![r].outcome = "RoutingError",
                                    ![r].cause = "RoutingError",
                                    ![r].pc = "done"]
            /\ completed' = Append(completed, r)
       ELSE /\ runs' = [runs EXCEPT ![r].lc = lifecycle_transition_to(@, "EXECUTING", "None"),
                                    ![r].pc = "running"]
            /\ UNCHANGED completed
    /\ UNCHANGED last_lifecycle

\* execute_agent: router.select_agent, then TERMINATED and RoutingError, or EXECUTING
AgentSelect(r) ==
    /\ runs[r].pc = "selecting"
    /\ IF select_agent(runs[r].agent_id) = "RoutingError"
       THEN /\ runs' = [runs EXCEPT ![r].lc =
                           Finally(lifecycle_transition_to(@, "TERMINATED", "{error}")),
                                    ![r].outcome = "RoutingError",
                                    ![r].cause = "RoutingError",
                                    ![r].pc = "done"]
            /\ completed' = Append(completed, r)
       ELSE /\ runs' = [runs EXCEPT ![r].lc = lifecycle_transition_to(@, "EXECUTING", "None"),
                                    ![r].pc = "running"]
            /\ UNCHANGED completed
    /\ UNCHANGED last_lifecycle

\* execute_agent: agent.run
AgentRun(r) ==
    /\ runs[r].pc = "running"
    /\ \E res \in AgentResults :
          CASE res.kind = "raise" ->
                 /\ runs' = [runs EXCEPT ![r].lc = ExceptException(@),
                                         ![r].outcome = "RuntimeError",
                                         ![r].cause = "AgentException",
                                         ![r].pc = "done"]
                 /\ completed' = Append(completed, r)
            [] res.kind = "raise_routing" ->
                 /\ runs' = [runs EXCEPT ![r].lc = Finally(@),
                                         ![r].outcome = "RoutingError",
                                         ![r].cause = "RoutingError",
                                         ![r].pc = "done"]
                 /\ completed' = Append(completed, r)
            [] OTHER ->
                 /\ runs' = [runs EXCEPT ![r].status = res.status,
                                         ![r].actions = res.actions,
                                         ![r].tracker = IF res.actions # <<>>
                                                        THEN NewTracker(now) ELSE @,
                                         ![r].pc = IF res.actions # <<>>
                                                   THEN "actions" ELSE "finishing"]
                 /\ UNCHANGED completed
    /\ UNCHANGED last_lifecycle

\* execute_agent: one pass of the loop over result.actions
AgentAction(r) ==
    /\ runs[r].pc = "actions"
    /\ LET i == runs[r].i
           a == runs[r].actions[i]
           nextpc == IF i + 1 > Len(runs[r].actions) THEN "finishing" ELSE "actions"
       IN \E env \in AgentEnvs(a) :
          \E res \in {execute_action(a, runs[r].tracker, now, env)} :
            IF res.raised = "none"
            THEN /\ runs' = [runs EXCEPT ![r].tracker = Recorded(@, res.steps),
                                         ![r].results = Append(@, i),
                                         ![r].i = i + 1,
                                         ![r].pc = nextpc]
                 /\ UNCHANGED completed
            ELSE IF res.raised = "ActionExecutionError"
            THEN /\ runs' = [runs EXCEPT ![r].tracker = Recorded(@, res.steps),
                                         ![r].errors = Append(@, i),
                                         ![r].i = i + 1,
                                         ![r].pc = nextpc]
                 /\ UNCHANGED completed
            ELSE /\ runs' = [runs EXCEPT ![r].tracker = Recorded(@, res.steps),
                                         ![r].lc = ExceptException(@),
                                         ![r].outcome = "RuntimeError",
                                         ![r].cause = res.raised,
                                         ![r].pc = "done"]
                 /\ completed' = Append(completed, r)
    /\ UNCHANGED last_lifecycle

\* execute_agent: the transition on result.status, and the return
AgentFinish(r) ==
    /\ runs[r].pc = "finishing"
    /\ runs' = [runs EXCEPT ![r].lc =
                    Finally(IF runs[r].status = "success"
                            THEN lifecycle_transition_to(@, "COMPLETED", "None")
                            ELSE lifecycle_transition_to(@, "FAILED", "{status}")),
                            ![r].outcome = "returned",
                            ![r].pc = "done"]
    /\ completed' = Append(completed, r)
    /\ UNCHANGED last_lifecycle

\* One Runtime whose execute_agent is called from several threads.
InitAgent ==
    /\ cfg = [permissions |-> GrantConfigs[1], policies |-> PolicyConfigs[1],
              budget |-> BudgetConfigs[1]]
    /\ tracker = NoTracker
    /\ now = 0
    /\ invoked = 0
    /\ ctx_invoked = 0
    /\ last = NoCall
    /\ retry = IdleRetry
    /\ InitLifecycle
    /\ InitRuntime
    /\ InitCalls
    /\ InitNoScheduler
    /\ InitNoFlow

NextAgent ==
    /\ \E r \in Runs :
          \/ AgentStart(r)
          \/ AgentSelect(r)
          \/ AgentRun(r)
          \/ AgentAction(r)
          \/ AgentFinish(r)
    /\ UNCHANGED <<aeVars, retry, lcVars, fnVars, sched, flow>>

SpecAgent == InitAgent /\ [][NextAgent]_vars


\* ================================================================== claims
\* What the most recent call did.
Steps == last.result.steps

StepAt(op) == {i \in 1..Len(Steps) : Steps[i].op = op}

Entered == StepAt("execute") # {}

AuditSteps == {i \in 1..Len(Steps) : Steps[i].op = "emit_audit"}

\* The gates, evaluated on the call's input and starting state.
BudgetPasses == last.pre.present => check_budget(last.pre, cfg.budget, last.t) = BudgetOk

PermissionGranted ==
    IF last.action.type = "tool"
    THEN \A p \in Range(permissions_required(last.action.tool_id)) :
            _has_permission(p, cfg.permissions)
    ELSE last.svc_perm = "true"

PolicyAction ==
    IF last.action.type = "tool" THEN <<"tool", "execute">>
    ELSE <<"service", last.action.action>>

PolicyOf == evaluate_policy(PolicyAction, cfg.policies)

TrackerUntouched ==
    /\ tracker.call_count = last.pre.call_count
    /\ tracker.cost_accumulated = last.pre.cost_accumulated
    /\ StepAt("record_call") = {}
    /\ StepAt("record_cost") = {}

\* C1: a target's execute is entered only after the budget check passed, then
\* the permission check passed, then the policy evaluated to ALLOW, in that
\* order; no target is entered for an action that a gate rejected.
C1_GatesBeforeInvocation ==
    last.path = "executor" =>
        \A i \in StepAt("execute") :
            /\ BudgetPasses
            /\ PermissionGranted
            /\ PolicyOf = "allow"
            /\ \E k \in 1..(i - 1) : \E l \in (k + 1)..(i - 1) :
                  /\ Steps[k].op = "check_permissions" /\ Steps[k].outcome = "ok"
                  /\ Steps[l].op = "evaluate_policy" /\ Steps[l].outcome = "allow"
                  /\ last.pre.present =>
                        \E j \in 1..(k - 1) :
                            Steps[j].op = "check_budget" /\ Steps[j].outcome = "ok"

C1_Witness ==
    /\ last.path = "executor"
    /\ last.pre.present
    /\ last.action.tool_id = "tool2"
    /\ Entered

C3_PermissionDenial ==
    (/\ last.path = "executor"
     /\ Registered(last.action)
     /\ BudgetPasses
     /\ last.svc_perm # "raise"
     /\ ~PermissionGranted) =>
        /\ last.result.raised = "ActionExecutionError"
        /\ last.result.reason = "permission"
        /\ Cardinality(AuditSteps) = 1
        /\ \A i \in AuditSteps :
              /\ Steps[i].kind = "governance:permissions"
              /\ Steps[i].outcome = "denied"
              /\ Steps[i].resource[1] = last.action.type
        /\ ~Entered
        /\ TrackerUntouched

C3_Witness ==
    /\ last.path = "executor"
    /\ last.pre.present
    /\ last.pre.call_count = 1
    /\ last.action.tool_id = "tool2"
    /\ last.result.reason = "permission"
    /\ \E i \in AuditSteps : Steps[i].ok


GateReasons == {"budget", "permission", "policy_deny", "policy_require_approval"}

\* C4: under execute_with_retry with the default classifier and
\* is_idempotent = true, an attempt that a gate rejected (budget, permission,
\* policy deny or require_approval) ends the loop: no attempt follows it.
C4_DenialNotRetried ==
    (/\ retry.phase # "idle"
     /\ retry.is_idempotent
     /\ retry.reason \in GateReasons) => retry.phase = "done"

\* C5: budget consumption is cumulative over one context: with call_limit = 1
\* no second target is entered for the context, whichever path issues the
\* action.
C5_BudgetCumulativePerRun ==
    cfg.budget.call_limit = Limit(1) => ctx_invoked <= 1

\* C6: if emit_audit fails while the decision for an action that passed the
\* budget, permission and policy gates is recorded, execute_action fails and
\* the target is not entered.
C6_UnauditedNeverPasses ==
    (/\ last.path = "executor"
     /\ Registered(last.action)
     /\ BudgetPasses
     /\ PermissionGranted
     /\ PolicyOf = "allow"
     /\ \E i \in AuditSteps : ~Steps[i].ok) =>
        /\ last.result.raised # "none"
        /\ ~Entered

\* C7: whenever the permission check succeeds, a permission decision
\* "allowed" is emitted after it and before the policy is evaluated, so also
\* when the policy then denies or requires approval.
C7_GrantAuditedBeforePolicy ==
    last.path = "executor" =>
        \A k \in StepAt("check_permissions") :
            Steps[k].outcome = "ok" =>
                \E i \in AuditSteps :
                    /\ Steps[i].kind = "governance:permissions"
                    /\ Steps[i].outcome = "allowed"
                    /\ k < i
                    /\ \A l \in StepAt("evaluate_policy") : i < l

\* C8: whenever the policy outcome is ALLOW, a policy decision "allow" is
\* emitted before the target is entered.
C8_AllowAuditedBeforeInvocation ==
    last.path = "executor" =>
        \A e \in StepAt("execute") :
            \E i \in AuditSteps :
                /\ i < e
                /\ Steps[i].kind = "governance:policy"
                /\ Steps[i].outcome = "allow"

\* C9: when the policy outcome is DENY or REQUIRE_APPROVAL, execute_action
\* hands exactly one policy decision carrying that outcome to the sink, fails
\* with ActionExecutionError, records no call and does not enter the target.
C9_PolicyDenialIsHardStop ==
    (/\ last.path = "executor"
     /\ Registered(last.action)
     /\ BudgetPasses
     /\ PermissionGranted
     /\ PolicyOf \in {"deny", "require_approval"}) =>
        /\ last.result.raised = "ActionExecutionError"
        /\ last.result.reason = IF PolicyOf = "deny" THEN "policy_deny"
                                ELSE "policy_require_approval"
        /\ Cardinality({i \in AuditSteps : Steps[i].kind = "governance:policy"}) = 1
        /\ \A i \in AuditSteps :
              Steps[i].kind = "governance:policy" =>
                  /\ Steps[i].outcome = PolicyOf
                  /\ Steps[i].action = PolicyAction
        /\ ~Entered
        /\ TrackerUntouched

C9_Witness ==
    /\ last.path = "executor"
    /\ last.pre.present
    /\ last.action.type = "service"
    /\ last.result.reason = "policy_require_approval"
    /\ \E i \in AuditSteps : Steps[i].outcome = "require_approval"

\* The transition table of the lifecycle, as (state, target) pairs.
TransitionTable ==
    {<<"INITIALIZING", "READY">>, <<"INITIALIZING", "FAILED">>,
     <<"READY", "EXECUTING">>, <<"READY", "TERMINATED">>,
     <<"EXECUTING", "COMPLETED">>, <<"EXECUTING", "FAILED">>,
     <<"EXECUTING", "TERMINATED">>, <<"FAILED", "TERMINATED">>}

\* C10: a transition_to call succeeds only if (current state, target) is in
\* the table; every other call raises and leaves the state as it was, so the
\* state never changes along an edge outside the table.
C10_OnlyTableTransitions ==
    [][/\ lc_state' # lc_state => <<lc_state, lc_state'>> \in TransitionTable
       /\ lc_last' # lc_last =>
             /\ lc_last'.from = lc_state
             /\ lc_last'.result = "ok" <=>
                   <<lc_last'.from, lc_last'.to>> \in TransitionTable
             /\ lc_last'.result = "ok" => lc_state' = lc_last'.to
             /\ lc_last'.result # "ok" =>
                   /\ lc_last'.result = "ValueError"
                   /\ lc_state' = lc_state]_vars

C10_Witness ==
    /\ lc_state = "COMPLETED"
    /\ lc_last.result = "ValueError"
    /\ lc_last.to = "EXECUTING"
    /\ Len(lc_events) = 3

\* The states in which a run is over.
TerminalStates == {"COMPLETED", "FAILED", "TERMINATED"}

\* How often an event is in the log.
EventCount(event) == Cardinality({i \in 1..Len(lc_events) : lc_events[i][1] = event})

\* C11: is_terminal() is true exactly in COMPLETED, FAILED and TERMINATED;
\* once it is true it stays true whatever transition_to calls follow; and no
\* terminal state is entered a second time (its event is logged at most once).
C11_TerminalIsAbsorbing ==
    /\ [](is_terminal(lc_state) <=> lc_state \in TerminalStates)
    /\ [][(lc_state \in TerminalStates) => (lc_state' \in TerminalStates)]_vars
    /\ [](\A st \in TerminalStates :
            /\ Cardinality({i \in 1..Len(lc_calls) : lc_calls[i][1] = st}) <= 1
            /\ EventCount(event_map(st)) <= 1)

\* A failed run was terminated, and a later call was turned down.
C11_Witness ==
    /\ lc_state = "TERMINATED"
    /\ is_terminal(lc_state)
    /\ Len(lc_calls) = 2
    /\ lc_calls[1][1] = "FAILED"
    /\ lc_last.result = "ValueError"

\* The event the log holds for a state entered.
EventFor(state) ==
    CASE state = "READY" -> "INITIALIZATION_COMPLETED"
      [] state = "EXECUTING" -> "EXECUTION_STARTED"
      [] state = "COMPLETED" -> "EXECUTION_COMPLETED"
      [] state = "FAILED" -> "EXECUTION_FAILED"
      [] state = "TERMINATED" -> "TERMINATION_STARTED"

\* C12: every transition_to call that succeeds appends exactly one record, the
\* event mapped to the state entered with the metadata passed; the log has one
\* record per successful transition, in order; a rejected call adds none; and
\* earlier records are never changed or removed.
C12_EventLogMirrorsTransitions ==
    /\ [](/\ Len(lc_events) = Len(lc_calls)
          /\ \A i \in 1..Len(lc_calls) :
                lc_events[i] = <<EventFor(lc_calls[i][1]), lc_calls[i][2]>>)
    /\ [][/\ IsPrefix(lc_events, lc_events')
          /\ lc_last' # lc_last /\ lc_last'.result = "ok" =>
                Len(lc_events') = Len(lc_events) + 1
          /\ lc_last'.result # "ok" => lc_events' = lc_events]_vars

\* A run that went READY, EXECUTING, FAILED, with metadata on the last step.
C12_Witness ==
    /\ Len(lc_events) = 3
    /\ lc_events[3] = <<"EXECUTION_FAILED", "{error}">>
    /\ lc_events[1] = <<"INITIALIZATION_COMPLETED", "None">>
    /\ lc_last.result = "ValueError"

\* The execute_agent calls that ended because no agent could be selected.
SelectionFailed(r) ==
    /\ runs[r].pc = "done"
    /\ runs[r].outcome = "RoutingError"
    /\ select_agent(runs[r].agent_id) = "RoutingError"

\* C13 as claimed: when agent selection fails, RoutingError is raised before
\* any lifecycle state is touched: the run's lifecycle made no transition and
\* recorded no event, and get_lifecycle_events returns what it returned
\* before the call (nothing, for the first call on a Runtime).
C13_RoutingErrorTouchesNothing ==
    \A r \in Runs :
        SelectionFailed(r) =>
            /\ runs[r].lc.state = "INITIALIZING"
            /\ runs[r].lc.events = <<>>
            /\ (r = 1 /\ last_lifecycle = 1) => get_lifecycle_events = <<>>

\* C13 amended: when agent selection fails, RoutingError is raised before the
\* agent runs and before any budget state is made, but the run's lifecycle
\* has gone READY and then TERMINATED, recording INITIALIZATION_COMPLETED and
\* TERMINATION_STARTED (with the error), and get_lifecycle_events returns
\* these two records until another call starts.
C13_RoutingErrorTerminates ==
    \A r \in Runs :
        SelectionFailed(r) =>
            /\ runs[r].lc.state = "TERMINATED"
            /\ runs[r].lc.events = << <<"INITIALIZATION_COMPLETED", "None">>,
                                      <<"TERMINATION_STARTED", "{error}">> >>
            /\ ~runs[r].lc.rejected
            /\ runs[r].status = "none"
            /\ runs[r].results = <<>> /\ runs[r].errors = <<>>
            /\ runs[r].tracker = NoTracker
            /\ last_lifecycle = r => get_lifecycle_events = runs[r].lc.events

C13_Witness ==
    /\ SelectionFailed(1)
    /\ last_lifecycle = 1
    /\ Len(get_lifecycle_events) = 2

\* The run got a result from its agent.
AgentReturned(r) == runs[r].status # "none"

\* C14: a failing action adds one entry to result.errors and the loop goes on
\* to every remaining action in list order; the failure does not abort the
\* run, which returns its result (COMPLETED when the agent's status is
\* success).
C14_FailedActionDoesNotAbort ==
    \A r \in Runs :
        (runs[r].pc = "done" /\ AgentReturned(r)) =>
            /\ runs[r].outcome = "returned"
            /\ Len(runs[r].errors) + Len(runs[r].results) = Len(runs[r].actions)
            /\ runs[r].status = "success" => runs[r].lc.state = "COMPLETED"

\* C15: get_lifecycle_events returns the complete event list of the run that
\* completed most recently (nothing before any run completed), also while
\* execute_agent calls run concurrently.
C15_EventsOfLastCompletedRun ==
    get_lifecycle_events =
        IF completed = <<>> THEN <<>>
        ELSE runs[completed[Len(completed)]].lc.events

\* The categories that are never retried.
NeverRetried == {"validation_error", "permission_error", "budget_exceeded"}

\* C16: should_retry returns false for every error whose category is
\* validation_error, permission_error or budget_exceeded, at every attempt
\* and for every idempotency flag, also when the error is marked retryable.
C16_GovernanceErrorsNotRetried ==
    (sr_call.done /\ sr_call.error.error_type \in NeverRetried) => ~sr_call.result

\* A permission error marked retryable, on an idempotent operation with
\* attempts left and no budget attached, is turned down.
C16_Witness ==
    /\ sr_call.done
    /\ sr_call.error = ErrorOf("permission_error", TRUE)
    /\ sr_call.is_idempotent
    /\ sr_call.attempt < sr_call.max_attempts
    /\ ~sr_call.has_enforcer
    /\ ~sr_call.result

\* Some configured limit is used up for the tracker at clock t.
BudgetSpent(tr, budget, t) ==
    \/ budget.time_limit.has /\ t - tr.start_time >= budget.time_limit.v
    \/ budget.call_limit.has /\ tr.call_count >= budget.call_limit.v
    \/ budget.cost_limit.has /\ tr.cost_accumulated >= budget.cost_limit.v

\* The operation raised a timeout at every attempt of a finished call.
TimeoutEveryAttempt ==
    /\ retry.phase = "done"
    /\ retry.result = "raised"
    /\ retry.kinds = {"TimeoutError"}

\* C17 as claimed: for max_attempts >= 1 the operation is invoked at most
\* max_attempts times; an idempotent operation raising a timeout at every
\* attempt is invoked exactly max_attempts times and its exception comes
\* out; the first successful attempt ends the loop.
C17_TimeoutRetriedMaxAttempts ==
    (retry.phase = "done" /\ retry.max_attempts >= 1) =>
        /\ retry.invocations <= retry.max_attempts
        /\ (retry.is_idempotent /\ TimeoutEveryAttempt) =>
              /\ retry.invocations = retry.max_attempts
              /\ retry.raised = "TimeoutError"
        /\ retry.result = "returned" => retry.invocations = retry.attempt

\* C17 amended: for max_attempts >= 1 the operation is invoked at most
\* max_attempts times and the call always ends; an idempotent operation
\* raising a timeout at every attempt is invoked exactly max_attempts times,
\* unless an attached budget enforcer found the budget used up after a failed
\* attempt, and in both cases the operation's exception comes out; the first
\* successful attempt is the last invocation and nothing follows the end.
C17_BoundedRetries ==
    /\ []((retry.phase # "idle" /\ retry.max_attempts >= 1) =>
            /\ retry.invocations <= retry.max_attempts
            /\ retry.phase = "running" =>
                  (retry.attempt <= retry.max_attempts
                   /\ retry.invocations = retry.attempt - 1))
    /\ []((retry.max_attempts >= 1 /\ retry.is_idempotent /\ TimeoutEveryAttempt) =>
            /\ retry.raised = "TimeoutError"
            /\ \/ retry.invocations = retry.max_attempts
               \/ retry.has_enforcer /\ BudgetSpent(tracker, cfg.budget, retry.t))
    /\ []((retry.phase = "done" /\ retry.result = "returned") =>
            /\ retry.invocations = retry.attempt
            /\ retry.sleeps = retry.attempt - 1)
    /\ [][retry.phase = "done" => retry' = retry]_vars
    /\ (retry.phase = "running") ~> (retry.phase = "done")

\* Three timeouts in a row with max_attempts = 3.
C17_Witness ==
    /\ TimeoutEveryAttempt
    /\ retry.is_idempotent
    /\ retry.max_attempts = 3
    /\ retry.invocations = 3
    /\ retry.sleeps = 2
    /\ retry.raised = "TimeoutError"

\* C18 as claimed: an operation passed with is_idempotent = false is invoked
\* exactly once, with no delay, and its failure comes out, whatever the
\* error category and max_attempts.
C18_NonIdempotentInvokedOnce ==
    (retry.phase = "done" /\ ~retry.is_idempotent) =>
        /\ retry.invocations = 1
        /\ retry.sleeps = 0
        /\ retry.result = "raised" => retry.raised \in retry.kinds

\* C18 amended: the same, for max_attempts >= 1.
C18_NonIdempotentInvokedOnceIfAny ==
    (retry.phase = "done" /\ ~retry.is_idempotent /\ retry.max_attempts >= 1) =>
        /\ retry.invocations = 1
        /\ retry.sleeps = 0
        /\ retry.result = "raised" => retry.raised \in retry.kinds

\* A retryable timeout with attempts left, not retried.
C18_Witness ==
    /\ retry.phase = "done"
    /\ ~retry.is_idempotent
    /\ retry.max_attempts = 3
    /\ retry.raised = "TimeoutError"
    /\ retry.result = "raised"
    /\ retry.invocations = 1

\* C19: with a budget enforcer attached, a failed attempt after which some
\* limit is used up is never followed by another attempt: the loop goes on
\* only when the budget was not used up when should_retry was asked, and a
\* call that met a used-up budget ends with the operation's exception.
C19_NoRetryOnExhaustedBudget ==
    retry.has_enforcer =>
        /\ (retry.phase = "running" /\ retry.attempt > 1) =>
              ~BudgetSpent(tracker, cfg.budget, retry.t)
        /\ (retry.phase = "done" /\ retry.result = "raised" /\ retry.max_attempts >= 1
              /\ BudgetSpent(tracker, cfg.budget, retry.t)) =>
              retry.raised \in retry.kinds

\* A retryable timeout with attempts left, not retried because the budget
\* is used up.
C19_Witness ==
    /\ retry.has_enforcer
    /\ retry.phase = "done"
    /\ retry.is_idempotent
    /\ retry.raised = "TimeoutError"
    /\ retry.invocations = 1
    /\ retry.max_attempts = 3
    /\ BudgetSpent(tracker, cfg.budget, retry.t)

\* The budget dimensions in the order they are to be examined, and for the
\* observed check_budget call the limit and the consumption of each.
Dimensions == <<"time", "calls", "cost">>

LimitOf(d) ==
    CASE d = 1 -> cb_call.budget.time_limit
      [] d = 2 -> cb_call.budget.call_limit
      [] d = 3 -> cb_call.budget.cost_limit

ConsumedOf(d) ==
    CASE d = 1 -> cb_call.t - cb_call.tr.start_time
      [] d = 2 -> cb_call.tr.call_count
      [] d = 3 -> cb_call.tr.cost_accumulated

Crossed == {d \in 1..3 : LimitOf(d).has /\ ConsumedOf(d) >= LimitOf(d).v}

\* C20: check_budget raises for the first dimension, in the order time,
\* calls, cost, that has a limit and a consumption at or over it, carrying
\* that dimension's budget_type, limit and consumed; with several limits
\* crossed the earliest is reported; a dimension without a limit never fails.
C20_FirstCrossedLimitReported ==
    cb_call.done =>
        IF Crossed = {}
        THEN cb_call.result = BudgetOk
        ELSE LET d == Min(Crossed)
             IN cb_call.result = [budget_type |-> Dimensions[d],
                                  limit |-> LimitOf(d).v,
                                  consumed |-> ConsumedOf(d)]

\* Time and calls are both at their limit, cost has none: time is reported.
C20_Witness ==
    /\ cb_call.done
    /\ Crossed = {1, 2}
    /\ ~cb_call.budget.cost_limit.has /\ cb_call.tr.cost_accumulated > 0
    /\ ConsumedOf(1) = LimitOf(1).v
    /\ cb_call.result.budget_type = "time"

\* The registered agents as a set, and those able to do what is required.
RegisteredAgents == Range(fn_call.args.agents)

Capable ==
    {e.id : e \in {x \in RegisteredAgents :
                      fn_call.args.required_capabilities.v \subseteq x.capabilities}}

\* C21: select_agent depends on the set of registered agents and its
\* arguments only: with agent_id given, that agent or a failure (no fallback
\* to capabilities); otherwise with required_capabilities given, the agent
\* with the smallest id among those whose capabilities include them, or a
\* failure if none; with neither, a failure.
C21_RoutingByIdThenCapabilities ==
    (fn_call.fn = "select_agent" /\ fn_call.done) =>
        fn_call.result =
            IF fn_call.args.agent_id # 0
            THEN IF fn_call.args.agent_id \in {e.id : e \in RegisteredAgents}
                 THEN [raised |-> "none", agent |-> fn_call.args.agent_id]
                 ELSE [raised |-> "RoutingError", agent |-> 0]
            ELSE IF fn_call.args.required_capabilities.has /\ Capable # {}
            THEN [raised |-> "none", agent |-> Min(Capable)]
            ELSE [raised |-> "RoutingError", agent |-> 0]

\* Two capable agents registered in descending id order: the smaller is taken.
C21_Witness ==
    /\ fn_call.fn = "select_agent" /\ fn_call.done
    /\ fn_call.args.agent_id = 0
    /\ fn_call.args.required_capabilities = [has |-> TRUE, v |-> {"cap1"}]
    /\ Len(fn_call.args.agents) = 2
    /\ fn_call.args.agents[1].id > fn_call.args.agents[2].id
    /\ Capable = {fn_call.args.agents[1].id, fn_call.args.agents[2].id}
    /\ fn_call.result.agent = fn_call.args.agents[2].id

\* The required permissions of the observed check that the evaluator does
\* not resolve as granted.
NotGranted ==
    {q \in Range(fn_call.args.required) : ~_has_permission(q, fn_call.args.available)}

\* C22: check_permissions succeeds exactly when every required permission is
\* granted (always, when none is required); otherwise it fails and reports
\* all the missing permissions, not only the first.
C22_AllOrNothingWithFullReport ==
    (fn_call.fn = "check_permissions" /\ fn_call.done) =>
        /\ fn_call.result.ok <=> NotGranted = {}
        /\ fn_call.args.required = <<>> => fn_call.result.ok
        /\ Range(fn_call.result.missing) = NotGranted

\* Two permissions required, both missing, both reported.
C22_Witness ==
    /\ fn_call.fn = "check_permissions" /\ fn_call.done
    /\ Len(fn_call.args.required) = 2
    /\ ~fn_call.result.ok
    /\ Len(fn_call.result.missing) = 2

\* The three forms a grant can take for the observed name.
DirectForm == HasKey(fn_call.args.available, fn_call.args.permission)

ListForm ==
    /\ HasKey(fn_call.args.available, "permissions")
    /\ Lookup(fn_call.args.available, "permissions").kind = "list"
    /\ fn_call.args.permission \in Range(Lookup(fn_call.args.available, "permissions").l)

NestedForm == NestedHits(fn_call.args.permission, fn_call.args.available) # {}

\* C23: a permission name is resolved by the first form that matches: the
\* direct key, then membership in the "permissions" list, then a key of a
\* nested map; a "permissions" list without the name is not a match, so the
\* nested maps still decide.
C23_FirstMatchingFormWins ==
    (fn_call.fn = "_has_permission" /\ fn_call.done) =>
        fn_call.result =
            IF DirectForm
            THEN LET value == Lookup(fn_call.args.available, fn_call.args.permission)
                 IN value.kind = "bool" => value.b
            ELSE IF ListForm THEN TRUE
            ELSE IF NestedForm
            THEN LET first == fn_call.args.available[
                                  Min(NestedHits(fn_call.args.permission,
                                                 fn_call.args.available))].val.d
                     pv == NestedValue(fn_call.args.permission, first)
                 IN pv[2] = "bool" => pv[3]
            ELSE FALSE

\* Positions of the observed policy dict whose key is the action itself, and
\* whose key is a wildcard "<prefix>.*" with the action under that prefix.
ExactKeys ==
    {i \in 1..Len(fn_call.args.policies) :
        fn_call.args.policies[i].key = fn_call.args.action}

WildcardKeys ==
    {i \in 1..Len(fn_call.args.policies) :
        LET key == fn_call.args.policies[i].key
        IN /\ key[Len(key)] = "*"
           /\ Len(fn_call.args.action) >= Len(key)
           /\ \A j \in 1..(Len(key) - 1) : key[j] = fn_call.args.action[j]}

ConfiguredOutcome(i) ==
    IF fn_call.args.policies[i].val.has_outcome
    THEN fn_call.args.policies[i].val.outcome
    ELSE "allow"

\* C24: evaluate_policy returns the outcome of the policy keyed by the action
\* itself when there is one, whatever wildcard policies exist and wherever
\* they stand; otherwise the outcome of the first configured wildcard key
\* that covers the action; otherwise ALLOW.
C24_ExactThenFirstWildcardThenAllow ==
    (fn_call.fn = "evaluate_policy" /\ fn_call.done) =>
        fn_call.result =
            IF ExactKeys # {} THEN ConfiguredOutcome(Min(ExactKeys))
            ELSE IF WildcardKeys # {} THEN ConfiguredOutcome(Min(WildcardKeys))
            ELSE "allow"

\* An exact key configured after a covering wildcard with another outcome.
C24_Witness ==
    /\ fn_call.fn = "evaluate_policy" /\ fn_call.done
    /\ ExactKeys # {} /\ WildcardKeys # {}
    /\ Min(WildcardKeys) < Min(ExactKeys)
    /\ ConfiguredOutcome(Min(WildcardKeys)) = "deny"
    /\ fn_call.result = "allow"

\* The target's execute was called by the observed execute_action and raised.
TargetRaised ==
    \E i \in 1..Len(last.result.steps) :
        last.result.steps[i].op = "execute" /\ last.result.steps[i].outcome = "raise"

NamesUnregistered ==
    \/ /\ last.action.type = "tool"
       /\ last.action.tool_id \notin ToolIds \cup {"None"}
    \/ /\ last.action.type = "service"
       /\ last.action.service_id \notin ServiceIds \cup {"None"}

\* C26: an action naming an unregistered tool or service fails at once: no
\* budget check, no permission or policy evaluation, no audit event, and the
\* tracker's counters are what they were before the call.
C26_UnregisteredFailsBeforeGovernance ==
    (last.path = "executor" /\ NamesUnregistered) =>
        /\ last.result.raised = "ActionExecutionError"
        /\ last.result.steps = <<>>
        /\ tracker = last.pre

\* An unregistered tool is named while the budget is already exhausted.
C26_Witness ==
    /\ last.path = "executor"
    /\ last.action.type = "tool"
    /\ NamesUnregistered
    /\ last.pre.present
    /\ check_budget(last.pre, cfg.budget, last.t) # BudgetOk
    /\ last.result.reason = "not_registered"

Propagated == fn_call.fn = "propagate_execution_context" /\ fn_call.done

GivenUpdates ==
    IF fn_call.args.metadata_updates.has THEN fn_call.args.metadata_updates.v ELSE <<>>

Keys(dict) == {dict[i].key : i \in 1..Len(dict)}

\* C27: the context propagate_execution_context returns has the run_id,
\* correlation_id, initiator, permissions, budget, locale and observability
\* of the context it was given (and so of the first context of the chain);
\* its metadata is the given metadata overridden by the updates; the given
\* context is left as it was; with no updates the result equals it.
C27_PropagationPreservesAllButMetadata ==
    Propagated =>
        LET given == fn_call.args.context
            result == fn_call.result.result
        IN /\ \A f \in {"run_id", "correlation_id", "initiator", "permissions",
                         "budget", "locale", "observability"} : result[f] = given[f]
           /\ result.run_id = fn_call.args.root.run_id
           /\ result.correlation_id = fn_call.args.root.correlation_id
           /\ Keys(result.metadata) = Keys(given.metadata) \cup Keys(GivenUpdates)
           /\ Len(result.metadata) = Cardinality(Keys(result.metadata))
           /\ \A k \in Keys(result.metadata) :
                 Lookup(result.metadata, k) =
                     IF k \in Keys(GivenUpdates) THEN Lookup(GivenUpdates, k)
                     ELSE Lookup(given.metadata, k)
           /\ fn_call.result.context = given
           /\ GivenUpdates = <<>> => result = given

\* The second propagation of a chain overrides one key and adds another.
C27_Witness ==
    /\ Propagated
    /\ fn_call.args.depth = 2
    /\ \E k \in Keys(GivenUpdates) \cap Keys(fn_call.args.context.metadata) :
          Lookup(GivenUpdates, k) # Lookup(fn_call.args.context.metadata, k)
    /\ Keys(GivenUpdates) \ Keys(fn_call.args.context.metadata) # {}
    /\ fn_call.args.context # fn_call.args.root

QueuedIds == {sched.pending_queue[i].task_id : i \in 1..Len(sched.pending_queue)}

\* C28: the running tasks never exceed max_concurrency, whatever the
\* interleaving of schedule calls and completions; a task scheduled while the
\* scheduler is full is queued, and a queued task starts only in the step in
\* which a running task completes.
C28_ConcurrencyLimit ==
    /\ [](Cardinality(sched.running_tasks) <= sched.max_concurrency)
    /\ [][\A id \in TaskIds :
            /\ (/\ sched.task_completion_events[id] = "none"
                /\ sched'.task_completion_events[id] = "clear"
                /\ Cardinality(sched.running_tasks) >= sched.max_concurrency)
               => (/\ id \notin sched'.running_tasks
                   /\ \E i \in 1..Len(sched'.pending_queue) :
                         sched'.pending_queue[i].task_id = id)
            /\ (id \in QueuedIds /\ id \in sched'.running_tasks)
               => \E done \in sched.running_tasks :
                     /\ done \notin sched'.running_tasks
                     /\ sched'.task_completion_events[done] = "set"]_vars

\* The scheduler is full, a task that waited in the queue runs, and another
\* still waits.
C28_Witness ==
    /\ sched.max_concurrency >= 1
    /\ Cardinality(sched.running_tasks) = sched.max_concurrency
    /\ \E id \in sched.running_tasks : sched.started_from[id] = "queue"
    /\ sched.pending_queue # <<>>

\* Task t goes before task u: higher priority, or the same priority and
\* scheduled earlier.
GoesBefore(t, u) ==
    \/ t.priority > u.priority
    \/ t.priority = u.priority /\ t.enqueue_time < u.enqueue_time

\* C29: the queued task started when a slot frees is the one of highest
\* priority, and among those of equal priority the one scheduled first.
C29_HighestPriorityThenFifo ==
    [][\A i \in 1..Len(sched.pending_queue) :
          sched.pending_queue[i].task_id \in sched'.running_tasks
          => \A j \in 1..Len(sched.pending_queue) :
                j # i => GoesBefore(sched.pending_queue[i], sched.pending_queue[j])]_vars

\* A task was started from the queue ahead of a task of lower priority
\* scheduled before it and of a task of its own priority scheduled after it.
C29_Witness ==
    \E id \in TaskIds :
        /\ sched.started_from[id] = "queue"
        /\ \E i, j \in 1..Len(sched.pending_queue) :
              /\ sched.pending_queue[i].priority < sched.task[id].priority
              /\ sched.pending_queue[i].enqueue_time < sched.task[id].enqueue_time
              /\ sched.pending_queue[j].priority = sched.task[id].priority
              /\ sched.pending_queue[j].enqueue_time > sched.task[id].enqueue_time

\* C30: with max_concurrency at least 1 and every task function ending,
\* every task schedule accepted eventually has its completion event set
\* (and so was started), also while tasks of higher priority keep arriving.
C30_NoStarvation ==
    \A id \in TaskIds :
        (sched.max_concurrency >= 1 /\ sched.task_completion_events[id] = "clear")
            ~> (sched.task_completion_events[id] = "set")

\* The observed call produced an audit event.
ProducedAudit ==
    \E i \in 1..Len(last.result.steps) : last.result.steps[i].op = "emit_audit"

\* C31: every audit event the governance pipeline produces for a tool node of
\* a flow is delivered to the sink configured on the Runtime.
C31_FlowAuditsReachRuntimeSink ==
    (last.path = "flow" /\ ProducedAudit) => last.sink = "runtime"

\* C32: execute_action returns a result or fails with ActionExecutionError,
\* and with no other exception type, also when a matched policy's outcome
\* string is invalid, the service's check_permission raises, or the target's
\* cost metric is negative.
C32_OnlyActionExecutionError ==
    last.path = "executor" => last.result.raised \in {"none", "ActionExecutionError"}

\* The audit events of denials whose emission failed in the observed call.
FailedDenialAudits ==
    {i \in 1..Len(last.result.steps) :
        /\ last.result.steps[i].op = "emit_audit"
        /\ ~last.result.steps[i].ok
        /\ last.result.steps[i].outcome \in {"denied", "deny", "require_approval"}}

\* The denial an audit event reports.
DenialOf(step) ==
    IF step.kind = "governance:budget" THEN "budget"
    ELSE IF step.kind = "governance:permissions" THEN "permission"
    ELSE IF step.outcome = "deny" THEN "policy_deny"
    ELSE "policy_require_approval"

\* C33: when a gate denies an action and emitting the denial's audit event
\* fails, execute_action fails with the ActionExecutionError of that denial,
\* never with AuditEmissionError, and the target is not invoked.
C33_FailedAuditDoesNotMaskDenial ==
    \A i \in FailedDenialAudits :
        /\ last.result.raised = "ActionExecutionError"
        /\ last.result.reason = DenialOf(last.result.steps[i])
        /\ CountSteps(last.result.steps, "execute") = 0

\* A policy denial whose audit event the sink refused.
C33_Witness ==
    /\ last.path = "executor"
    /\ \E i \in FailedDenialAudits : DenialOf(last.result.steps[i]) = "policy_deny"
    /\ last.result.reason = "policy_deny"

\* C34: every execute_agent call that has ended left its LifecycleManager in
\* a terminal state without a rejected transition: TERMINATED when the
\* selection failed, COMPLETED when the agent returned status "success",
\* FAILED when it returned another status or the agent or the action loop
\* raised.
C34_RunEndsInItsTerminalState ==
    \A r \in Runs :
        runs[r].pc = "done" =>
            /\ ~runs[r].lc.rejected
            /\ runs[r].lc.state =
                  IF SelectionFailed(r) THEN "TERMINATED"
                  ELSE IF runs[r].outcome = "returned" /\ runs[r].status = "success"
                  THEN "COMPLETED"
                  ELSE "FAILED"

\* C35: with a budget tracker attached, call_count is the number of times a
\* target's execute was entered (invocations that raised included), and an
\* action stopped by an unknown target, the budget check, the permission
\* check or the policy leaves call_count and cost_accumulated as they were.
C35_CallCountCountsInvocations ==
    /\ tracker.present => tracker.call_count = invoked
    /\ (/\ last.path = "executor"
        /\ last.result.reason \in {"not_registered", "budget", "permission",
                                   "policy_deny", "policy_require_approval"})
       => tracker = last.pre


\* C36: with a cost limit configured, a call that starts with cost_accumulated
\* at or above the limit invokes no target, and a cost is only ever added to an
\* accumulated cost that was still below the limit, so the total exceeds the
\* limit by at most the cost of the one action that crossed it.
C36_CostLimitCrossedByOneAction ==
    /\ [](last.path = "executor" /\ last.pre.present /\ cfg.budget.cost_limit.has
          /\ last.pre.cost_accumulated >= cfg.budget.cost_limit.v
          => CountSteps(last.result.steps, "execute") = 0)
    /\ [][tracker.present /\ cfg.budget.cost_limit.has
          /\ tracker'.cost_accumulated # tracker.cost_accumulated
          => /\ tracker.cost_accumulated < cfg.budget.cost_limit.v
             /\ tracker'.cost_accumulated > tracker.cost_accumulated]_vars

\* One action took the accumulated cost past the limit and the next call was
\* stopped by the cost check.
C36_Witness ==
    /\ cfg.budget.cost_limit.has
    /\ tracker.cost_accumulated > cfg.budget.cost_limit.v
    /\ last.path = "executor"
    /\ last.pre.cost_accumulated = tracker.cost_accumulated
    /\ last.result.reason = "budget"
    /\ CountSteps(last.result.steps, "execute") = 0


\* C37: a transition_to call that is rejected changes neither the lifecycle
\* state nor the event log, and a valid transition requested right after a
\* rejected call succeeds.
C37_RejectedTransitionChangesNothing ==
    /\ [][lc_last'.result = "ValueError"
          => lc_state' = lc_state /\ lc_events' = lc_events /\ lc_calls' = lc_calls]_vars
    /\ [][lc_last.result = "ValueError" /\ lc_last' # lc_last
          /\ lc_last'.to \in valid_transitions(lc_last.from)
          => /\ lc_last'.result = "ok"
             /\ lc_last'.from = lc_last.from
             /\ lc_state' = lc_last'.to
             /\ Len(lc_events') = Len(lc_events) + 1]_vars

\* READY was asked to go to COMPLETED and refused, with one event logged.
C37_Witness ==
    /\ lc_last = [from |-> "READY", to |-> "COMPLETED", result |-> "ValueError"]
    /\ lc_state = "READY"
    /\ Len(lc_events) = 1


\* C38: whenever a task's completion event is set, exactly one of a result
\* and an error is recorded for it and it is not in the running set, so
\* get_result returns the result or raises the error and never fails with
\* the missing-result KeyError.
C38_CompletionHasResultOrError ==
    \A task_id \in TaskIds :
        sched.task_completion_events[task_id] = "set"
        => /\ (task_id \in sched.task_results) # (task_id \in sched.task_errors)
           /\ task_id \notin sched.running_tasks
           /\ get_result(sched, task_id) \in {"return_result", "raise_error"}


\* C39: execute ends after at most 100 node executions; when no node failed
\* it returns "completed" exactly if a node with no matching outgoing
\* transition was reached within them, the 100th included, and fails for
\* exceeding the maximum iterations otherwise.
C39_CompletedIffEndReachedWithin100 ==
    /\ flow.executed <= max_iterations
    /\ flow.iteration <= max_iterations
    /\ flow.pc = "loop" => flow.iteration < max_iterations
    /\ flow.pc = "done" /\ ~flow.node_error
       => /\ flow.result = "completed" <=> flow.reached_end
          /\ ~flow.reached_end => flow.result = "max_iterations"


\* C40: for every attempt >= 1 and every jitter value, the delay
\* get_retry_delay returns is at most max_delay.
C40_DelayAtMostMaxDelay ==
    fn_call.fn = "get_retry_delay" /\ fn_call.done /\ fn_call.args.attempt >= 1
    => fn_call.result <= fn_call.args.self.max_delay

====
